---- MODULE Spec2Model ----
(***************************************************************************)
(* Balance-consistency engine of the expense tracker (src/expenses).       *)
(*                                                                         *)
(* Every ledger mutation (Expense / Income / Transfer save and delete) is  *)
(* modelled statement by statement as a function on configurations: one    *)
(* database statement of the method per step.  The database is modelled as *)
(* a row-locking store at READ COMMITTED: an UPDATE of an account row and  *)
(* a SELECT ... FOR UPDATE take the row's exclusive lock and keep it until *)
(* the transaction ends; a plain SELECT reads the committed row; writes of *)
(* a transaction become visible at its commit.                             *)
(*                                                                         *)
(* Spec     : the mutations executed one at a time (each action runs one   *)
(*            whole handler to its end).                                   *)
(* SpecConc : two request workers, each executing one mutation, their      *)
(*            statements interleaved; it starts from a seeded database     *)
(*            built by running mutations one at a time.                    *)
(* SpecTrip : one entry at a time is created, updated and deleted.         *)
(* SpecAcct : accounts are created, renamed and deleted and a salary is    *)
(*            deposited, each request alone; then two workers each handle  *)
(*            one request (get_external_account, salary, PUT or DELETE of  *)
(*            an account) query by query, their queries interleaved.       *)
(* SpecRace : after deletions handled alone, each worker handles one       *)
(*            request for an account or an entry (or one save() or         *)
(*            delete()) query by query, waiting for the other's row locks. *)
(* SpecSeed : the management command seed, statement by statement.         *)
(* SpecFail : one mutation executed statement by statement, in which the   *)
(*            statement that persists or removes the row may fail.         *)
(* SpecView : the requests of two users through the ViewSets (serializer   *)
(*            validation, the queryset of the requesting user, salary).    *)
(***************************************************************************)
EXTENDS Integers, FiniteSets, Sequences, TLC

\* The larger of the two positive amounts entries are given (amounts are counted
\* in whole units; the smaller one is 1).
MaxAmt == 2
\* amount = models.DecimalField(max_digits=10, decimal_places=2): the largest
\* whole amount the field accepts.
DecimalMax == 99999999
\* Number of entries that may be inserted in the one-at-a-time specification.
MaxCreates == 2
\* Number of create .. delete round trips that are followed.
MaxTrips == 2
\* Number of Account rows that may be inserted after the initial ones.
MaxNewAccounts == 2
\* Number of times the seed command is run, and number of iterations each of
\* its three loops is followed for.
MaxSeedRuns == 2
MaxSeedEntries == 2

Workers == {"w1", "w2"}
Free == "free"

\* The User rows.
User == {1, 2}
\* The users on whose behalf requests are issued.
RequestUsers == {1}

\* The name get_external_account gives the system account, and the names users
\* ask for when they create or rename an account.
ExternalName == "External (System)"
Names == {ExternalName, "Cash"}

\* The Account rows the database starts with: 1 is user 1's system account, 2
\* and 3 are user 1's regular accounts, 4 belongs to user 2 (who has no system
\* account yet).
Account ==
  [a \in 1..4 |->
     [user |-> IF a = 4 THEN 2 ELSE 1,
      name |-> IF a = 1 THEN ExternalName ELSE IF a = 3 THEN "Bank" ELSE "Cash",
      is_system |-> (a = 1)]]
\* The primary keys Account rows can have.
Accounts == 1..(Cardinality(DOMAIN Account) + MaxNewAccounts)

\* The Category rows: category c belongs to user c.
Category == [k \in 1..2 |-> [user |-> k]]
Categories == DOMAIN Category

VARIABLES
  accounts,   \* Account table: pk -> [user, name, is_system]
  balance,    \* Account.balance, committed value, per account
  expenses,   \* Expense table: pk -> [user, account, category, amount]
  incomes,    \* Income table: pk -> [user, account, amount]
  transfers,  \* Transfer table: pk -> [user, from_account, to_account, amount]
  seq,        \* next primary key of each entry table
  lock,       \* holder of each account row's exclusive lock, or Free
  tx,         \* per worker: the model instance in hand and its transaction
  last,       \* the mutation or request handled alone that completed last
  trip        \* the entry whose create .. delete round trip is followed

vars == <<accounts, balance, expenses, incomes, transfers, seq, lock, tx, last, trip>>

----------------------------------------------------------------------------
\* Helpers on tables (functions from primary key to row).

Put(f, k, v) == [x \in (DOMAIN f) \cup {k} |-> IF x = k THEN v ELSE f[x]]
Remove(f, k) == [x \in (DOMAIN f) \ {k} |-> f[x]]
Min(S) == CHOOSE x \in S : \A y \in S : x <= y

\* A model instance in memory (self / prev).  One shape for the three entry
\* types; the fields a type does not have are 0.
NoSelf ==
  [type |-> "none", kind |-> "none", pk |-> 0, user |-> 0, account |-> 0,
   category |-> 0, from_account |-> 0, to_account |-> 0, amount |-> 0, name |-> ""]

ExpenseSelf(kind, pk, user, account, category, amount) ==
  [NoSelf EXCEPT !.type = "exp", !.kind = kind, !.pk = pk, !.user = user,
                 !.account = account, !.category = category, !.amount = amount]

IncomeSelf(kind, pk, user, account, amount) ==
  [NoSelf EXCEPT !.type = "inc", !.kind = kind, !.pk = pk, !.user = user,
                 !.account = account, !.amount = amount]

TransferSelf(kind, pk, user, from_account, to_account, amount) ==
  [NoSelf EXCEPT !.type = "tr", !.kind = kind, !.pk = pk, !.user = user,
                 !.from_account = from_account, !.to_account = to_account,
                 !.amount = amount]

\* A call of get_external_account(user).
ExternalSelf(user) == [NoSelf EXCEPT !.type = "acct", !.kind = "get_external", !.user = user]

\* A request of `user` to TransferViewSet.salary: the deposit account and the
\* amount of the payload; from_account is set once get_external_account has
\* returned.
SalarySelf(user, to_account, amount) == TransferSelf("salary", 0, user, 0, to_account, amount)

\* A DELETE request of `user` for the entry pk of the given type, before
\* get_object() has loaded the row.
DestroySelf(type, pk, user) ==
  [NoSelf EXCEPT !.type = type, !.kind = "destroy", !.pk = pk, !.user = user]

\* A request of `user` for the Account row pk: kind "create" (POST with the
\* name), "update" (PUT with the name) and "destroy" (DELETE) through
\* AccountViewSet, "delete" a call of Account.delete() on the row.
AccountSelf(kind, pk, user, name) ==
  [NoSelf EXCEPT !.type = "acct", !.kind = kind, !.pk = pk, !.user = user, !.name = name]

\* The rows as stored.
ExpenseRow(s) == [user |-> s.user, account |-> s.account, category |-> s.category, amount |-> s.amount]
IncomeRow(s) == [user |-> s.user, account |-> s.account, amount |-> s.amount]
TransferRow(s) == [user |-> s.user, from_account |-> s.from_account, to_account |-> s.to_account, amount |-> s.amount]

\* The Account instance as get_object() loads it: the row's fields with the
\* committed balance (in amount).
AccountGet(c, kind, pk) ==
  [NoSelf EXCEPT !.type = "acct", !.kind = kind, !.pk = pk, !.user = c.accounts[pk].user,
                 !.name = c.accounts[pk].name, !.amount = c.balance[pk]]

\* Model.objects.get(pk=...): the instance of a stored row.
ExpenseGet(c, kind, pk) ==
  LET r == c.expenses[pk] IN ExpenseSelf(kind, pk, r.user, r.account, r.category, r.amount)
IncomeGet(c, kind, pk) ==
  LET r == c.incomes[pk] IN IncomeSelf(kind, pk, r.user, r.account, r.amount)
TransferGet(c, kind, pk) ==
  LET r == c.transfers[pk] IN TransferSelf(kind, pk, r.user, r.from_account, r.to_account, r.amount)

NoPend == [a \in Accounts |-> 0]
\* A worker without a request.  scan is the order in which the database's scan
\* of the Account table meets the rows: by ascending or by descending pk; found
\* are the relations in which the collector of a deletion has found protected
\* rows.
IdleTx ==
  [pc |-> "idle", self |-> NoSelf, prev |-> NoSelf, locked |-> {}, pend |-> NoPend,
   res |-> "none", ret |-> 0, scan |-> "asc", found |-> {}]

\* The configuration: the whole state as one value.
Cfg ==
  [accounts |-> accounts, balance |-> balance, expenses |-> expenses, incomes |-> incomes,
   transfers |-> transfers, seq |-> seq, lock |-> lock, tx |-> tx]

EmptyCfg ==
  [accounts |-> Account,
   balance |-> [a \in Accounts |-> 0], expenses |-> << >>, incomes |-> << >>,
   transfers |-> << >>,
   seq |-> [acc |-> Cardinality(DOMAIN Account) + 1, exp |-> 1, inc |-> 1, tr |-> 1],
   lock |-> [a \in Accounts |-> Free], tx |-> [w \in Workers |-> IdleTx]]

----------------------------------------------------------------------------
\* Database primitives, executed by worker w inside its transaction.

\* The row's lock is free for w to take.
RowLockFree(c, w, a) == c.lock[a] \in {Free, w}

\* Mutant of SelectForUpdate: a plain SELECT, which locks nothing.
SelectNoLock(c, w, a) == c

\* Account.objects.select_for_update()...: take the exclusive lock of the row,
\* if there is such a row.
SelectForUpdate(c, w, a) ==
  IF a \in DOMAIN c.accounts THEN [c EXCEPT !.lock[a] = w] ELSE c

\* Mutant of Update: the filter on the primary key is missing, so the UPDATE
\* changes every account row.
Update_unfiltered(c, w, a, d) ==
  [c EXCEPT !.lock = [x \in Accounts |-> IF x = a /\ a \in DOMAIN c.accounts THEN w ELSE @[x]],
            !.tx[w].pend = [x \in Accounts |-> IF x \in DOMAIN c.accounts THEN @[x] + d ELSE @[x]]]

\* Account.objects.filter(pk=a).update(balance=F('balance') + d): a relative
\* UPDATE; it takes the row's lock and its effect is pending until commit.
\* When there is no row with this pk the statement changes no row.
Update(c, w, a, d) ==
  IF a \in DOMAIN c.accounts
  THEN [c EXCEPT !.lock[a] = w, !.tx[w].pend[a] = @ + d]
  ELSE c

\* The balance w's transaction reads: the committed value and its own writes.
ReadBalance(c, w, a) == c.balance[a] + c.tx[w].pend[a]

ReleaseLocks(c, w) == [a \in Accounts |-> IF c.lock[a] = w THEN Free ELSE c.lock[a]]

\* An exception leaves `with transaction.atomic()`: the pending writes are
\* dropped and the locks released.
Raise(c, w, res) ==
  [c EXCEPT !.lock = ReleaseLocks(c, w), !.tx[w].pend = NoPend,
            !.tx[w].pc = "done", !.tx[w].res = res]

\* The atomic block ends normally: the pending writes are committed.
Commit(c, w) ==
  [c EXCEPT !.balance = [a \in Accounts |-> c.balance[a] + c.tx[w].pend[a]],
            !.lock = ReleaseLocks(c, w), !.tx[w].pend = NoPend,
            !.tx[w].pc = "done", !.tx[w].res = "ok"]

Goto(c, w, pc) == [c EXCEPT !.tx[w].pc = pc]

\* The call returns the Account row a.
Return(c, w, a) == [c EXCEPT !.tx[w].pc = "done", !.tx[w].res = "ok", !.tx[w].ret = a]

\* The instance was built or altered by a serializer, which set its related
\* fields to the Account objects it had loaded: clean() reads them from the
\* instance's cache, without a query, and no DoesNotExist can leave it.
Serializer_built(self) == self.kind \in {"create", "update", "salary"}

----------------------------------------------------------------------------
\* Expense (models.py 42-85).

\* Mutant of Expense_clean: system accounts are not refused.
Expense_clean_system_allowed(c, self) ==
  /\ c.accounts[self.account].user = self.user
  /\ Category[self.category].user = self.user

\* Expense.clean: account and category belong to the expense's user, the
\* account is not a system account.
Expense_clean(c, self) ==
  /\ c.accounts[self.account].user = self.user
  /\ Category[self.category].user = self.user
  /\ ~c.accounts[self.account].is_system

\* Expense.clean reads self.account (and, when the account is the user's,
\* self.category): the related row does not exist, DoesNotExist leaves
\* full_clean.
Expense_clean_DoesNotExist(c, self) ==
  \/ self.account \notin DOMAIN c.accounts
  \/ /\ c.accounts[self.account].user = self.user
     /\ self.category \notin Categories

\* self.full_clean() of an Expense: the fields refer to existing rows, clean(),
\* and the constraint expense_amount_gt_0.
Expense_full_clean(c, self) ==
  /\ self.amount <= DecimalMax
  /\ self.account \in DOMAIN c.accounts
  /\ self.category \in Categories
  /\ Expense_clean(c, self)
  /\ self.amount > 0

\* super().save() of an Expense: UPDATE the row with this pk, INSERT it when no
\* row was updated; a new instance takes the next pk.  The atomic block ends.
\* The foreign key to Account refuses a row whose account does not exist.
Expense_super_save(c, w) ==
  LET self == c.tx[w].self
      pk   == IF self.pk > 0 THEN self.pk ELSE c.seq.exp
  IN  IF self.account \notin DOMAIN c.accounts THEN Raise(c, w, "integrity")
      ELSE
      Commit([c EXCEPT !.expenses = Put(c.expenses, pk, ExpenseRow(self)),
                       !.seq.exp = IF self.pk > 0 THEN @ ELSE @ + 1], w)

\* Mutant of Expense_delta: the whole new amount instead of the difference.
Expense_delta_full(self, prev) == self.amount

\* delta = self.amount - prev.amount (unchanged account).
Expense_delta(self, prev) == self.amount - prev.amount

\* Mutant of Expense_reverse_old: the old account is left alone.
Expense_reverse_old_skipped(c, w, prev) == c

\* The old account gets the old amount back (changed account).
Expense_reverse_old(c, w, prev) == Update(c, w, prev.account, prev.amount)

\* Expense.save, one statement per step.
Expense_save(c, w) ==
  LET t == c.tx[w]
      self == t.self
      prev == t.prev
  IN  CASE t.pc = "full_clean" ->
             IF Expense_clean_DoesNotExist(c, self) /\ ~Serializer_built(self)
             THEN Raise(c, w, "notfound")
             ELSE IF ~Expense_full_clean(c, self) THEN Raise(c, w, "invalid")
             ELSE Goto(c, w, IF self.pk > 0 THEN "get_prev" ELSE "update_new")
        [] t.pc = "get_prev" ->
             \* prev = Expense.objects.select_related("account").get(pk=self.pk)
             IF self.pk \notin DOMAIN c.expenses THEN Raise(c, w, "notfound")
             ELSE LET p == ExpenseGet(c, "prev", self.pk)
                  IN  [c EXCEPT !.tx[w].prev = p,
                                !.tx[w].pc = IF p.account # self.account
                                             THEN "update_prev" ELSE "update_delta"]
        [] t.pc = "update_prev" ->
             Goto(Expense_reverse_old(c, w, prev), w, "update_new")
        [] t.pc = "update_new" ->
             Goto(Update(c, w, self.account, 0 - self.amount), w, "super_save")
        [] t.pc = "update_delta" ->
             LET delta == Expense_delta(self, prev)
             IN  Goto(Update(c, w, self.account, 0 - delta), w, "super_save")
        [] t.pc = "super_save" -> Expense_super_save(c, w)

\* Mutant of Expense_delete: the amount is subtracted a second time instead of
\* given back.
Expense_delete_subtracts(c, w) ==
  LET t == c.tx[w]
      self == t.self
  IN  CASE t.pc = "update_del" ->
             Goto(Update(c, w, self.account, 0 - self.amount), w, "super_delete")
        [] t.pc = "super_delete" ->
             Commit([c EXCEPT !.expenses = Remove(c.expenses, self.pk)], w)

\* Expense.delete: give the amount back, delete the row.
Expense_delete(c, w) ==
  LET t == c.tx[w]
      self == t.self
  IN  CASE t.pc = "update_del" ->
             Goto(Update(c, w, self.account, self.amount), w, "super_delete")
        [] t.pc = "super_delete" ->
             Commit([c EXCEPT !.expenses = Remove(c.expenses, self.pk)], w)

----------------------------------------------------------------------------
\* Income (models.py 87-127).

\* Mutant of Income_clean: the account's owner is not checked.
Income_clean_any_owner(c, self) == ~c.accounts[self.account].is_system

\* Income.clean.
Income_clean(c, self) ==
  /\ c.accounts[self.account].user = self.user
  /\ ~c.accounts[self.account].is_system

\* Income.clean reads self.account: the row does not exist, DoesNotExist
\* leaves full_clean.
Income_clean_DoesNotExist(c, self) == self.account \notin DOMAIN c.accounts

\* self.full_clean() of an Income, with the constraint income_amount_gt_0.
Income_full_clean(c, self) ==
  /\ self.amount <= DecimalMax
  /\ self.account \in DOMAIN c.accounts
  /\ Income_clean(c, self)
  /\ self.amount > 0

\* super().save() of an Income.
Income_super_save(c, w) ==
  LET self == c.tx[w].self
      pk   == IF self.pk > 0 THEN self.pk ELSE c.seq.inc
  IN  IF self.account \notin DOMAIN c.accounts THEN Raise(c, w, "integrity")
      ELSE
      Commit([c EXCEPT !.incomes = Put(c.incomes, pk, IncomeRow(self)),
                       !.seq.inc = IF self.pk > 0 THEN @ ELSE @ + 1], w)

\* Mutant of Income_delta: the whole new amount instead of the difference.
Income_delta_full(self, prev) == self.amount

\* delta = self.amount - prev.amount (unchanged account).
Income_delta(self, prev) == self.amount - prev.amount

\* Mutant of Income_reverse_old: the old account is left alone.
Income_reverse_old_skipped(c, w, prev) == c

\* The old amount is taken back from the old account (changed account).
Income_reverse_old(c, w, prev) == Update(c, w, prev.account, 0 - prev.amount)

\* Income.save, one statement per step.
Income_save(c, w) ==
  LET t == c.tx[w]
      self == t.self
      prev == t.prev
  IN  CASE t.pc = "full_clean" ->
             IF Income_clean_DoesNotExist(c, self) /\ ~Serializer_built(self)
             THEN Raise(c, w, "notfound")
             ELSE IF ~Income_full_clean(c, self) THEN Raise(c, w, "invalid")
             ELSE Goto(c, w, IF self.pk > 0 THEN "get_prev" ELSE "update_new")
        [] t.pc = "get_prev" ->
             IF self.pk \notin DOMAIN c.incomes THEN Raise(c, w, "notfound")
             ELSE LET p == IncomeGet(c, "prev", self.pk)
                  IN  [c EXCEPT !.tx[w].prev = p,
                                !.tx[w].pc = IF p.account # self.account
                                             THEN "update_prev" ELSE "update_delta"]
        [] t.pc = "update_prev" ->
             Goto(Income_reverse_old(c, w, prev), w, "update_new")
        [] t.pc = "update_new" ->
             Goto(Update(c, w, self.account, self.amount), w, "super_save")
        [] t.pc = "update_delta" ->
             LET delta == Income_delta(self, prev)
             IN  Goto(Update(c, w, self.account, delta), w, "super_save")
        [] t.pc = "super_save" -> Income_super_save(c, w)

\* Income.delete: take the amount back, delete the row.
Income_delete(c, w) ==
  LET t == c.tx[w]
      self == t.self
  IN  CASE t.pc = "update_del" ->
             Goto(Update(c, w, self.account, 0 - self.amount), w, "super_delete")
        [] t.pc = "super_delete" ->
             Commit([c EXCEPT !.incomes = Remove(c.incomes, self.pk)], w)

----------------------------------------------------------------------------
\* Transfer (models.py 129-200).

\* Transfer.clean.
Transfer_clean(c, self) ==
  /\ self.amount > 0
  /\ self.from_account # self.to_account
  /\ c.accounts[self.from_account].user = self.user
  /\ c.accounts[self.to_account].user = self.user

\* Transfer.clean, after its checks of the amount and of from # to, reads
\* self.from_account and (when that account is the user's) self.to_account:
\* the row does not exist, DoesNotExist leaves full_clean.
Transfer_clean_DoesNotExist(c, self) ==
  /\ self.amount > 0
  /\ self.from_account # self.to_account
  /\ \/ self.from_account \notin DOMAIN c.accounts
     \/ /\ c.accounts[self.from_account].user = self.user
        /\ self.to_account \notin DOMAIN c.accounts

\* self.full_clean() of a Transfer.
Transfer_full_clean(c, self) ==
  /\ self.amount <= DecimalMax
  /\ self.from_account \in DOMAIN c.accounts
  /\ self.to_account \in DOMAIN c.accounts
  /\ Transfer_clean(c, self)

\* Mutant of Transfer_reverse_effect_to: the amount is added to the receiving
\* account instead of taken back.
Transfer_reverse_effect_to_adds(c, w, prev) == Update(c, w, prev.to_account, prev.amount)

\* Mutant of Transfer_reverse_effect_from: the sending account does not get
\* the previous amount back.
Transfer_reverse_effect_from_skipped(c, w, prev) == c

\* Transfer._reverse_effect(prev), its two UPDATE statements.
Transfer_reverse_effect_from(c, w, prev) == Update(c, w, prev.from_account, prev.amount)
Transfer_reverse_effect_to(c, w, prev) == Update(c, w, prev.to_account, 0 - prev.amount)

\* Mutant of Transfer_apply_effect_to: the receiving account is not credited.
Transfer_apply_effect_to_skipped(c, w, self) == c

\* Transfer._apply_effect(), its two UPDATE statements.
Transfer_apply_effect_from(c, w, self) == Update(c, w, self.from_account, 0 - self.amount)
Transfer_apply_effect_to(c, w, self) == Update(c, w, self.to_account, self.amount)

\* The rows the lock query of Transfer.save has still to return: the Account
\* rows with pk__in=[from, to] that it has not locked yet.
Transfer_rows_to_lock(c, t) ==
  ({t.self.from_account, t.self.to_account} \cap DOMAIN c.accounts) \ t.locked

\* The row the lock query visits next.  The query has no ORDER BY: the rows are
\* locked in the order the database's scan meets them (t.scan).
Transfer_next_to_lock(c, t) ==
  LET S == Transfer_rows_to_lock(c, t)
  IN  IF t.scan = "asc" THEN Min(S) ELSE CHOOSE x \in S : \A y \in S : x >= y

\* locked = list(Account.objects.select_for_update().filter(pk__in=[...])):
\* one row is locked and returned per step; len(locked) != 2 raises
\* ValidationError("Both accounts must exist.").
Transfer_lock_accounts(c, w) ==
  LET t == c.tx[w]
      rows == Transfer_rows_to_lock(c, t)
  IN  IF rows = {} THEN Raise(c, w, "invalid")
      ELSE LET a == Transfer_next_to_lock(c, t)
               got == t.locked \cup {a}
               c1 == [SelectForUpdate(c, w, a) EXCEPT !.tx[w].locked = got]
           IN  IF rows # {a} THEN c1
               ELSE IF Cardinality(got) # 2 THEN Raise(c1, w, "invalid")
               ELSE Goto(c1, w, IF t.self.pk > 0 THEN "get_prev" ELSE "get_from_acct")

\* Mutant of Transfer_insufficient: the balance as it was before the previous
\* effect was reversed.
Transfer_insufficient_stale(c, w, self) ==
  /\ ~c.accounts[self.from_account].is_system
  /\ c.balance[self.from_account] < self.amount

\* Mutant of Transfer_insufficient: a balance equal to the amount is refused.
Transfer_insufficient_strict(c, w, self) ==
  /\ ~c.accounts[self.from_account].is_system
  /\ ReadBalance(c, w, self.from_account) <= self.amount

\* from_acct = Account.objects.select_for_update().get(pk=self.from_account_id)
\* not allow_overdraft and from_acct.balance < self.amount
Transfer_insufficient(c, w, self) ==
  /\ ~c.accounts[self.from_account].is_system
  /\ ReadBalance(c, w, self.from_account) < self.amount

\* Mutant of Transfer_reject: the method returns without putting the previous
\* effect back and without raising, so the reversal is committed.
Transfer_reject_returns(c, w) ==
  LET t == c.tx[w]
  IN  CASE t.pc = "restore_from" -> [Commit(c, w) EXCEPT !.tx[w].res = "insufficient"]
        [] t.pc = "restore_to" -> [Commit(c, w) EXCEPT !.tx[w].res = "insufficient"]

\* The rejection of an update: the previous effect is put back (two UPDATE
\* statements), then ValidationError leaves the atomic block.
Transfer_reject(c, w) ==
  LET t == c.tx[w]
      prev == t.prev
  IN  CASE t.pc = "restore_from" ->
             Goto(Update(c, w, prev.from_account, 0 - prev.amount), w, "restore_to")
        [] t.pc = "restore_to" ->
             Raise(Update(c, w, prev.to_account, prev.amount), w, "insufficient")

\* super().save() of a Transfer.
Transfer_super_save(c, w) ==
  LET self == c.tx[w].self
      pk   == IF self.pk > 0 THEN self.pk ELSE c.seq.tr
  IN  IF ~({self.from_account, self.to_account} \subseteq DOMAIN c.accounts)
      THEN Raise(c, w, "integrity")
      ELSE
      Commit([c EXCEPT !.transfers = Put(c.transfers, pk, TransferRow(self)),
                       !.seq.tr = IF self.pk > 0 THEN @ ELSE @ + 1], w)

\* Transfer.save, one statement per step:
\* lock -> reverse previous (if updating) -> validate funds -> apply -> save.
Transfer_save(c, w) ==
  LET t == c.tx[w]
      self == t.self
      prev == t.prev
  IN  CASE t.pc = "full_clean" ->
             IF Transfer_clean_DoesNotExist(c, self) /\ ~Serializer_built(self)
             THEN Raise(c, w, "notfound")
             ELSE IF ~Transfer_full_clean(c, self) THEN Raise(c, w, "invalid")
             ELSE Goto(c, w, "select_for_update")
        [] t.pc = "select_for_update" -> Transfer_lock_accounts(c, w)
        [] t.pc = "get_prev" ->
             IF self.pk \notin DOMAIN c.transfers THEN Raise(c, w, "notfound")
             ELSE [c EXCEPT !.tx[w].prev = TransferGet(c, "prev", self.pk),
                            !.tx[w].pc = "reverse_from"]
        [] t.pc = "reverse_from" ->
             Goto(Transfer_reverse_effect_from(c, w, prev), w, "reverse_to")
        [] t.pc = "reverse_to" ->
             Goto(Transfer_reverse_effect_to(c, w, prev), w, "get_from_acct")
        [] t.pc = "get_from_acct" ->
             LET c1 == SelectForUpdate(c, w, self.from_account)
             IN  IF self.from_account \notin DOMAIN c.accounts THEN Raise(c, w, "notfound")
                 ELSE IF Transfer_insufficient(c1, w, self)
                 THEN IF self.pk > 0 THEN Goto(c1, w, "restore_from")
                      ELSE Raise(c1, w, "insufficient")
                 ELSE Goto(c1, w, "apply_from")
        [] t.pc \in {"restore_from", "restore_to"} -> Transfer_reject(c, w)
        [] t.pc = "apply_from" ->
             Goto(Transfer_apply_effect_from(c, w, self), w, "apply_to")
        [] t.pc = "apply_to" ->
             Goto(Transfer_apply_effect_to(c, w, self), w, "super_save")
        [] t.pc = "super_save" -> Transfer_super_save(c, w)

\* Transfer.delete: read the stored row, reverse its effect, delete the row.
Transfer_delete(c, w) ==
  LET t == c.tx[w]
      self == t.self
      prev == t.prev
  IN  CASE t.pc = "get_prev" ->
             IF self.pk \notin DOMAIN c.transfers THEN Raise(c, w, "notfound")
             ELSE [c EXCEPT !.tx[w].prev = TransferGet(c, "prev", self.pk),
                            !.tx[w].pc = "reverse_from"]
        [] t.pc = "reverse_from" ->
             Goto(Transfer_reverse_effect_from(c, w, prev), w, "reverse_to")
        [] t.pc = "reverse_to" ->
             Goto(Transfer_reverse_effect_to(c, w, prev), w, "super_delete")
        [] t.pc = "super_delete" ->
             Commit([c EXCEPT !.transfers = Remove(c.transfers, self.pk)], w)

----------------------------------------------------------------------------
\* Account (models.py 26-35), AccountViewSet (views.py 161-167) and
\* get_external_account (utils.py).

\* Mutant of Account_unique_violation: no uniqueness constraint.
Account_unique_unchecked(c, a, user, name) == FALSE

\* unique_account_name_per_user: a row other than a has this user and name.
Account_unique_violation(c, a, user, name) ==
  \E b \in DOMAIN c.accounts \ {a} :
     c.accounts[b].user = user /\ c.accounts[b].name = name

\* INSERT of an Account row with the balance given; IntegrityError when the
\* constraint is violated.
Account_insert(c, w, user, name, is_system, opening) ==
  IF Account_unique_violation(c, 0, user, name) THEN Raise(c, w, "integrity")
  ELSE LET pk == c.seq.acc
       IN  Return([c EXCEPT !.accounts = Put(c.accounts, pk, [user |-> user, name |-> name, is_system |-> is_system]),
                            !.balance[pk] = opening,
                            !.seq.acc = @ + 1], w, pk)

\* Account.objects.get_or_create(user=user, name=name, defaults={"balance":
\* opening}): the row with this user and name, inserted with the opening
\* balance when there is none.
Account_get_or_create(c, w, user, name, opening) ==
  LET found == {a \in DOMAIN c.accounts : c.accounts[a].user = user /\ c.accounts[a].name = name}
  IN  IF found # {} THEN Return(c, w, CHOOSE a \in found : TRUE)
      ELSE Account_insert(c, w, user, name, FALSE, opening)

\* AccountViewSet.create: serializer.save(user=request.user); the serializer
\* sets the name only, is_system and balance take their defaults.
Account_create(c, w, user, name) == Account_insert(c, w, user, name, FALSE, 0)

\* The rows AccountViewSet works on: the user's accounts, system ones hidden.
Account_queryset(c, user) ==
  {a \in DOMAIN c.accounts : c.accounts[a].user = user /\ ~c.accounts[a].is_system}

\* serializer.save() of AccountViewSet.update: the name is the only writable
\* field, and instance.save() writes every field of the instance that
\* get_object() loaded (the balance included).  Model.save() issues an UPDATE
\* of the row with the instance's pk and, when that updated no row, an INSERT
\* of the instance: two statements, each committed on its own.
Account_save(c, w) ==
  LET t == c.tx[w]
      a == t.self.pk
      row == [user |-> t.prev.user, name |-> t.self.name, is_system |-> FALSE]
      saved == Return([c EXCEPT !.accounts = Put(c.accounts, a, row),
                                !.balance[a] = t.prev.amount], w, a)
  IN  CASE t.pc = "update_row" ->
             IF a \notin DOMAIN c.accounts THEN Goto(c, w, "insert_row")
             ELSE IF Account_unique_violation(c, a, row.user, row.name) THEN Raise(c, w, "integrity")
             ELSE saved
        [] t.pc = "insert_row" ->
             IF a \in DOMAIN c.accounts THEN Raise(c, w, "integrity")
             ELSE IF Account_unique_violation(c, a, row.user, row.name) THEN Raise(c, w, "integrity")
             ELSE saved

\* The foreign keys of the entry tables: a row of the relation references the
\* Account row a.
Account_referenced_by(c, a, rel) ==
  CASE rel = "expenses" -> \E k \in DOMAIN c.expenses : c.expenses[k].account = a
    [] rel = "incomes" -> \E k \in DOMAIN c.incomes : c.incomes[k].account = a
    [] rel = "transfers_from" -> \E k \in DOMAIN c.transfers : c.transfers[k].from_account = a
    [] rel = "transfers_to" -> \E k \in DOMAIN c.transfers : c.transfers[k].to_account = a

\* An Expense, Income or Transfer row references the Account row a.
Account_referenced(c, a) ==
  \E rel \in {"expenses", "incomes", "transfers_from", "transfers_to"} :
     Account_referenced_by(c, a, rel)

\* Mutant of Account_protected: on_delete does not protect the account.
Account_unprotected(c, a, rel) == FALSE

\* on_delete=models.PROTECT: the collector's SELECT on the relation finds a
\* row that references the account.
Account_protected(c, a, rel) == Account_referenced_by(c, a, rel)

\* Account.delete(), one query per step: the collector selects the rows of
\* each relation that reference the account (in the order of the models:
\* Expense.account, Income.account, Transfer.from_account,
\* Transfer.to_account) and, after the last relation,
\* raises ProtectedError when any of them had such rows; otherwise the row is
\* deleted (and its balance with it), unless a row that references it has been
\* stored since: the foreign key refuses the DELETE.
Account_delete(c, w) ==
  LET t == c.tx[w]
      a == t.self.pk
  IN  CASE t.pc \in {"collect_expenses", "collect_incomes", "collect_from", "collect_to"} ->
             LET rel == CASE t.pc = "collect_expenses" -> "expenses"
                          [] t.pc = "collect_incomes" -> "incomes"
                          [] t.pc = "collect_from" -> "transfers_from"
                          [] t.pc = "collect_to" -> "transfers_to"
                 found == IF Account_protected(c, a, rel) THEN t.found \cup {rel} ELSE t.found
                 c1 == [c EXCEPT !.tx[w].found = found]
             IN  IF t.pc = "collect_expenses" THEN Goto(c1, w, "collect_incomes")
                 ELSE IF t.pc = "collect_incomes" THEN Goto(c1, w, "collect_from")
                 ELSE IF t.pc = "collect_from" THEN Goto(c1, w, "collect_to")
                 ELSE IF found # {} THEN Raise(c1, w, "protected")
                 ELSE Goto(c1, w, "delete_row")
        [] t.pc = "delete_row" ->
             IF a \notin DOMAIN c.accounts THEN Return(c, w, 0)
             ELSE IF Account_referenced(c, a) THEN Raise(c, w, "integrity")
             ELSE Return([c EXCEPT !.accounts = Remove(c.accounts, a), !.balance[a] = 0], w, 0)

\* AccountViewSet.create, update and destroy, one query per step: create is
\* the INSERT of serializer.save(user=request.user); for the other two
\* get_object() answers 404 unless the row is in the user's queryset, then
\* serializer.save() or instance.delete().
AccountViewSet_request(c, w) ==
  LET t == c.tx[w]
      self == t.self
  IN  CASE t.pc = "insert" -> Account_create(c, w, self.user, self.name)
        [] t.pc = "get_object" ->
             IF self.pk \notin Account_queryset(c, self.user) THEN Raise(c, w, "notfound")
             ELSE [c EXCEPT !.tx[w].prev = AccountGet(c, "prev", self.pk),
                            !.tx[w].pc = IF self.kind = "update" THEN "update_row"
                                         ELSE "collect_expenses"]
        [] t.pc \in {"update_row", "insert_row"} -> Account_save(c, w)
        [] OTHER -> Account_delete(c, w)

\* Account.objects.get(user=user, is_system=True): the matching rows.
SystemAccounts(c, user) ==
  {a \in DOMAIN c.accounts : c.accounts[a].user = user /\ c.accounts[a].is_system}

\* get_external_account: Account.objects.get_or_create(user=user,
\* is_system=True, defaults={"name": "External (System)", "balance": 0}), one
\* query per step: get; on DoesNotExist create; on IntegrityError get again and
\* raise the IntegrityError when there still is no such row.
get_external_account(c, w) ==
  LET t == c.tx[w]
      user == t.self.user
      found == SystemAccounts(c, user)
  IN  CASE t.pc = "get" ->
             IF Cardinality(found) > 1 THEN Raise(c, w, "multiple")
             ELSE IF found = {} THEN Goto(c, w, "create")
             ELSE Return(c, w, CHOOSE a \in found : TRUE)
        [] t.pc = "create" ->
             LET c1 == Account_insert(c, w, user, ExternalName, TRUE, 0)
             IN  IF c1.tx[w].res = "integrity" THEN Goto(c, w, "get_again") ELSE c1
        [] t.pc = "get_again" ->
             IF Cardinality(found) > 1 THEN Raise(c, w, "multiple")
             ELSE IF found = {} THEN Raise(c, w, "integrity")
             ELSE Return(c, w, CHOOSE a \in found : TRUE)

----------------------------------------------------------------------------
\* The ViewSets (views.py, serializers.py): what a request of `user` does
\* before and around the model's save and delete.

\* The stored rows of an entry type.
Table(c, type) ==
  CASE type = "exp" -> c.expenses
    [] type = "inc" -> c.incomes
    [] type = "tr" -> c.transfers

\* attrs.get('amount') or getattr(self.instance, 'amount', None): an amount of
\* 0 in the payload of an update is replaced by the stored amount.
Serializer_amount(c, self) ==
  IF self.amount = 0 /\ self.pk \in DOMAIN Table(c, self.type)
  THEN Table(c, self.type)[self.pk].amount ELSE self.amount

\* ExpenseSerializer.validate (the account field must name an existing row).
ExpenseSerializer_validate(c, user, self) ==
  /\ self.account \in DOMAIN c.accounts
  /\ self.category \in Categories
  /\ c.accounts[self.account].user = user
  /\ Category[self.category].user = user
  /\ Serializer_amount(c, self) > 0

\* IncomeSerializer.validate.
IncomeSerializer_validate(c, user, self) ==
  /\ self.account \in DOMAIN c.accounts
  /\ Serializer_amount(c, self) > 0
  /\ c.accounts[self.account].user = user

\* Mutant of TransferSerializer_validate: system accounts are not refused.
TransferSerializer_validate_system_allowed(c, user, self, allow_system) ==
  /\ self.amount > 0
  /\ self.from_account # self.to_account
  /\ c.accounts[self.from_account].user = user
  /\ c.accounts[self.to_account].user = user

\* TransferSerializer.validate for a request of `user` (all fields given).
TransferSerializer_validate(c, user, self, allow_system) ==
  /\ self.amount > 0
  /\ self.from_account # self.to_account
  /\ c.accounts[self.from_account].user = user
  /\ c.accounts[self.to_account].user = user
  /\ (c.accounts[self.from_account].is_system \/ c.accounts[self.to_account].is_system)
        => allow_system

\* serializer.is_valid() of the ViewSet's serializer_class: the fields (the
\* amount has at most max_digits digits, the accounts exist), then validate();
\* only the salary routes put allow_system into the serializer's context.
Serializer_is_valid(c, user, self, allow_system) ==
  /\ self.amount <= DecimalMax
  /\ CASE self.type = "exp" -> ExpenseSerializer_validate(c, user, self)
       [] self.type = "inc" -> IncomeSerializer_validate(c, user, self)
       [] self.type = "tr" ->
            /\ {self.from_account, self.to_account} \subseteq DOMAIN c.accounts
            /\ TransferSerializer_validate(c, user, self, allow_system)

\* Mutant of get_queryset: the rows are not filtered by user.
get_queryset_unfiltered(c, user, type) == DOMAIN Table(c, type)

\* OwnedQuerysetMixin.get_queryset / TransferViewSet.get_queryset: the rows of
\* the requesting user.
get_queryset(c, user, type) ==
  {k \in DOMAIN Table(c, type) : Table(c, type)[k].user = user}

\* The instance of a stored row, as get_object() loads it.
EntryGet(c, type, kind, pk) ==
  CASE type = "exp" -> ExpenseGet(c, kind, pk)
    [] type = "inc" -> IncomeGet(c, kind, pk)
    [] type = "tr" -> TransferGet(c, kind, pk)

\* ModelViewSet.create, update and destroy of an entry, the queries before the
\* model's save() or delete(): get_object() of update and destroy answers 404
\* unless the row is in the user's queryset and loads the instance;
\* serializer.is_valid() of create and update validates the payload, reading
\* the fields of the instance from the object get_object() loaded.  Then
\* perform_create saves the new instance with user=request.user, perform_update
\* the loaded instance with the payload's field values, perform_destroy calls
\* instance.delete().
ModelViewSet_request(c, w) ==
  LET t == c.tx[w]
      self == t.self
  IN  CASE t.pc = "get_object" ->
             IF self.pk \notin get_queryset(c, self.user, self.type) THEN Raise(c, w, "notfound")
             ELSE IF self.kind = "destroy"
             THEN [c EXCEPT !.tx[w].self = EntryGet(c, self.type, "destroy", self.pk),
                            !.tx[w].pc = IF self.type = "tr" THEN "get_prev" ELSE "update_del"]
             ELSE [c EXCEPT !.tx[w].prev = EntryGet(c, self.type, "prev", self.pk),
                            !.tx[w].pc = "is_valid"]
        [] t.pc = "is_valid" ->
             LET user == self.user
                 instance == IF t.prev = NoSelf THEN self ELSE [self EXCEPT !.user = t.prev.user]
                 loaded == IF t.prev = NoSelf \/ t.prev.pk \notin DOMAIN Table(c, t.prev.type) THEN c
                           ELSE IF t.prev.type = "exp"
                           THEN [c EXCEPT !.expenses[t.prev.pk] = ExpenseRow(t.prev)]
                           ELSE IF t.prev.type = "inc"
                           THEN [c EXCEPT !.incomes[t.prev.pk] = IncomeRow(t.prev)]
                           ELSE [c EXCEPT !.transfers[t.prev.pk] = TransferRow(t.prev)]
             IN  IF ~Serializer_is_valid(loaded, user, self, FALSE)
                 THEN Raise(c, w, "invalid")
                 ELSE [c EXCEPT !.tx[w].self = instance, !.tx[w].prev = NoSelf,
                                !.tx[w].pc = "full_clean"]

\* TransferViewSet.salary, one query per step: the deposit account is looked
\* up among the user's regular accounts (404 otherwise); get_external_account
\* provides the system account; serializer.is_valid() looks both accounts up
\* again and validates the payload with allow_system; serializer.save() calls
\* Transfer.save().  Only the statements of the atomic block of Transfer.save
\* are one transaction.
TransferViewSet_salary(c, w) ==
  LET t == c.tx[w]
      self == t.self
  IN  CASE t.pc = "lookup" ->
             IF self.to_account \notin Account_queryset(c, self.user) THEN Raise(c, w, "notfound")
             ELSE Goto(c, w, "get")
        [] t.pc \in {"get", "create", "get_again"} ->
             LET c1 == get_external_account(c, w)
             IN  IF c1.tx[w].pc = "done" /\ c1.tx[w].res = "ok"
                 THEN [c1 EXCEPT !.tx[w].pc = "is_valid", !.tx[w].res = "none",
                                 !.tx[w].self.from_account = c1.tx[w].ret]
                 ELSE c1
        [] t.pc = "is_valid" ->
             IF ~Serializer_is_valid(c, self.user, self, TRUE) THEN Raise(c, w, "invalid")
             ELSE Goto(c, w, "full_clean")
        [] OTHER -> Transfer_save(c, w)

----------------------------------------------------------------------------
\* The stepper.

\* The first statement of a mutation.
StartPc(self) ==
  IF self.type = "acct"
  THEN CASE self.kind = "get_external" -> "get"
         [] self.kind = "delete" -> "collect_expenses"
         [] self.kind = "create" -> "insert"
         [] OTHER -> "get_object"
  ELSE IF self.kind = "salary" THEN "lookup"
  ELSE IF self.kind = "create" THEN "is_valid"
  ELSE IF self.kind \in {"update", "destroy"} THEN "get_object"
  ELSE IF self.kind = "save" THEN "full_clean"
  ELSE IF self.type = "tr" THEN "get_prev" ELSE "update_del"

\* A worker takes up a mutation: the instance in hand, no transaction yet.
Begin(c, w, self) ==
  [c EXCEPT !.tx[w] = [IdleTx EXCEPT !.self = self, !.pc = StartPc(self)]]

\* The orders in which the database may scan the Account table for the
\* mutation's lock query; they matter to a Transfer save only, the one mutation
\* with a query that locks more than one row.
ScanOrders(self) ==
  IF self.type = "tr" /\ self.kind \in {"save", "create", "update", "salary"}
  THEN {"asc", "desc"} ELSE {"asc"}

\* A worker takes up a mutation whose lock query will scan in the given order.
BeginScan(c, w, self, scan) == [Begin(c, w, self) EXCEPT !.tx[w].scan = scan]

\* The next statement of worker w's mutation.
Stmt(c, w) ==
  LET self == c.tx[w].self
  IN  CASE self.type = "acct" /\ self.kind = "get_external" -> get_external_account(c, w)
        [] self.type = "acct" /\ self.kind # "get_external" -> AccountViewSet_request(c, w)
        [] self.kind = "salary" -> TransferViewSet_salary(c, w)
        [] c.tx[w].pc \in {"get_object", "is_valid"} -> ModelViewSet_request(c, w)
        [] self.type = "exp" /\ self.kind \in {"save", "create", "update"} -> Expense_save(c, w)
        [] self.type = "exp" /\ self.kind \in {"delete", "destroy"} -> Expense_delete(c, w)
        [] self.type = "inc" /\ self.kind \in {"save", "create", "update"} -> Income_save(c, w)
        [] self.type = "inc" /\ self.kind \in {"delete", "destroy"} -> Income_delete(c, w)
        [] self.type = "tr" /\ self.kind \in {"save", "create", "update"} -> Transfer_save(c, w)
        [] self.type = "tr" /\ self.kind \in {"delete", "destroy"} -> Transfer_delete(c, w)

\* The account the next statement of w names in its WHERE clause.
RowNamed(c, w) ==
  LET t == c.tx[w]
      self == t.self
      prev == t.prev
  IN  CASE t.pc \in {"update_new", "update_delta", "update_del"} -> {self.account}
        [] t.pc = "update_prev" -> {prev.account}
        [] t.pc = "select_for_update" ->
             IF Transfer_rows_to_lock(c, t) = {} THEN {} ELSE {Transfer_next_to_lock(c, t)}
        [] t.pc \in {"reverse_from", "restore_from"} -> {prev.from_account}
        [] t.pc \in {"reverse_to", "restore_to"} -> {prev.to_account}
        [] t.pc \in {"get_from_acct", "apply_from"} -> {self.from_account}
        [] t.pc = "apply_to" -> {self.to_account}
        [] t.pc \in {"update_row", "delete_row"} -> {self.pk}
        [] OTHER -> {}

\* The account rows whose lock the next statement of w takes: the row it
\* names, if there is such a row.
LockWanted(c, w) == RowNamed(c, w) \cap DOMAIN c.accounts

Running(c, w) == c.tx[w].pc \notin {"idle", "done"}

\* The next statement of w waits for a row lock another transaction holds.
Blocked(c, w) == \E a \in LockWanted(c, w) : ~RowLockFree(c, w, a)

\* w waits for a lock v holds.
WaitsFor(c, w, v) ==
  /\ Running(c, w)
  /\ \E a \in LockWanted(c, w) : c.lock[a] = v

\* A mutation run alone from its first statement to its end.
RECURSIVE Run(_, _)
Run(c, w) == IF Running(c, w) THEN Run(Stmt(c, w), w) ELSE c

\* A whole mutation, executed alone; the worker is idle again afterwards.
Exec(c, w, self) == [Run(Begin(c, w, self), w) EXCEPT !.tx[w] = IdleTx]

RECURSIVE ExecAll(_, _, _)
ExecAll(c, w, ops) ==
  IF ops = <<>> THEN c ELSE ExecAll(Exec(c, w, Head(ops)), w, Tail(ops))

\* What a completed mutation is called.
OpOf(self) ==
  IF self.kind \in {"delete", "destroy"} THEN "delete" ELSE IF self.pk > 0 THEN "update" ELSE "create"

Install(c) ==
  /\ accounts' = c.accounts
  /\ balance' = c.balance
  /\ expenses' = c.expenses
  /\ incomes' = c.incomes
  /\ transfers' = c.transfers
  /\ seq' = c.seq
  /\ lock' = c.lock
  /\ tx' = c.tx

NoLast == [type |-> "none", op |-> "none", res |-> "none", change |-> "none"]

\* No round trip is followed.
NoTrip == [type |-> "none", pk |-> 0, balance |-> [a \in Accounts |-> 0], updated |-> FALSE, n |-> 0]

----------------------------------------------------------------------------
\* Spec: the mutations one at a time.

\* The amounts of valid requests: a small and a large one.
Amounts == {1, MaxAmt}

\* The field values of the save requests for an entry of user 1: every valid
\* combination, and one request for each way of failing validation.
\* Expense: <<account, category, amount>>.
ExpenseFields ==
  ({2, 3} \X {1} \X Amounts)
  \cup {<<1, 1, 1>>,    \* the system account
        <<4, 1, 1>>,    \* another user's account
        <<2, 2, 1>>,    \* another user's category
        <<2, 1, 0>>}    \* a non-positive amount
\* Income: <<account, amount>>.
IncomeFields ==
  ({2, 3} \X Amounts) \cup {<<1, 1>>, <<4, 1>>, <<2, 0>>}
\* Transfer: <<from_account, to_account, amount>>.
TransferFields ==
  {x \in {1, 2, 3} \X {1, 2, 3} \X Amounts : x[1] # x[2]}
  \cup {<<2, 2, 1>>,    \* from_account = to_account
        <<4, 2, 1>>,    \* another user's from_account
        <<2, 4, 1>>,    \* another user's to_account
        <<2, 3, 0>>}    \* a non-positive amount

\* Entries inserted so far.
Created(c) == (c.seq.exp - 1) + (c.seq.inc - 1) + (c.seq.tr - 1)

\* What a completed update changed in the stored row: t.prev is the row as it
\* was, t.self the row as saved.
ChangeOf(t) ==
  IF t.self.kind # "save" \/ t.prev = NoSelf \/ t.res # "ok" THEN "none"
  ELSE LET moved == \/ t.prev.account # t.self.account
                    \/ t.prev.from_account # t.self.from_account
                    \/ t.prev.to_account # t.self.to_account
           resized == t.prev.amount # t.self.amount
       IN  IF moved THEN (IF resized THEN "both" ELSE "account")
           ELSE (IF resized THEN "amount" ELSE "same")

\* One whole mutation by the single worker.
Complete(self) ==
  \E c \in {Run(Begin(Cfg, "w1", self), "w1")} :
     /\ Install([c EXCEPT !.tx["w1"] = IdleTx])
     /\ last' = [type |-> self.type, op |-> OpOf(self),
                 res |-> c.tx["w1"].res, change |-> ChangeOf(c.tx["w1"])]

ExpenseCreate ==
  /\ Created(Cfg) < MaxCreates
  /\ \E u \in RequestUsers, x \in ExpenseFields :
        Complete(ExpenseSelf("save", 0, u, x[1], x[2], x[3]))
  /\ UNCHANGED trip

ExpenseUpdate ==
  /\ \E pk \in DOMAIN expenses, x \in ExpenseFields :
        Complete(ExpenseSelf("save", pk, expenses[pk].user, x[1], x[2], x[3]))
  /\ UNCHANGED trip

ExpenseDelete ==
  /\ \E pk \in DOMAIN expenses : Complete(ExpenseGet(Cfg, "delete", pk))
  /\ UNCHANGED trip

IncomeCreate ==
  /\ Created(Cfg) < MaxCreates
  /\ \E u \in RequestUsers, x \in IncomeFields :
        Complete(IncomeSelf("save", 0, u, x[1], x[2]))
  /\ UNCHANGED trip

IncomeUpdate ==
  /\ \E pk \in DOMAIN incomes, x \in IncomeFields :
        Complete(IncomeSelf("save", pk, incomes[pk].user, x[1], x[2]))
  /\ UNCHANGED trip

IncomeDelete ==
  /\ \E pk \in DOMAIN incomes : Complete(IncomeGet(Cfg, "delete", pk))
  /\ UNCHANGED trip

TransferCreate ==
  /\ Created(Cfg) < MaxCreates
  /\ \E u \in RequestUsers, x \in TransferFields :
        Complete(TransferSelf("save", 0, u, x[1], x[2], x[3]))
  /\ UNCHANGED trip

TransferUpdate ==
  /\ \E pk \in DOMAIN transfers, x \in TransferFields :
        Complete(TransferSelf("save", pk, transfers[pk].user, x[1], x[2], x[3]))
  /\ UNCHANGED trip

TransferDelete ==
  /\ \E pk \in DOMAIN transfers : Complete(TransferGet(Cfg, "delete", pk))
  /\ UNCHANGED trip

Init ==
  /\ accounts = EmptyCfg.accounts
  /\ balance = EmptyCfg.balance
  /\ expenses = EmptyCfg.expenses
  /\ incomes = EmptyCfg.incomes
  /\ transfers = EmptyCfg.transfers
  /\ seq = EmptyCfg.seq
  /\ lock = EmptyCfg.lock
  /\ tx = EmptyCfg.tx
  /\ last = NoLast
  /\ trip = NoTrip

Next ==
  \/ ExpenseCreate
  \/ ExpenseUpdate
  \/ ExpenseDelete
  \/ IncomeCreate
  \/ IncomeUpdate
  \/ IncomeDelete
  \/ TransferCreate
  \/ TransferUpdate
  \/ TransferDelete

Spec == Init /\ [][Next]_vars

----------------------------------------------------------------------------
\* SpecConc: two workers, each running one save() or delete() of an entry
\* (Model.save / Model.delete of models.py, called directly: the checks of the
\* serializers and ViewSets are not part of it), statements interleaved.

\* The database the concurrent requests meet: built, one mutation at a time,
\* from zero balances: an Income of MaxAmt on accounts 2 and 3, a Transfer of 1
\* from 2 to 3 and one of 1 from 3 to 2, an Expense of 1 on account 2.
SeedOps ==
  << IncomeSelf("save", 0, 1, 2, MaxAmt),
     IncomeSelf("save", 0, 1, 3, MaxAmt),
     TransferSelf("save", 0, 1, 2, 3, 1),
     TransferSelf("save", 0, 1, 3, 2, 1),
     ExpenseSelf("save", 0, 1, 2, 1, 1) >>

SeedCfg == ExecAll(EmptyCfg, "w1", SeedOps)

\* The calls a worker may take up in configuration c: save() of every instance
\* of user 1 that full_clean() accepts, new or stored, and delete() of every
\* stored entry (a delete holds the instance as loaded from the row).
Requests(c) ==
  {ExpenseSelf("save", pk, 1, x[1], x[2], x[3]) :
     pk \in {0} \cup DOMAIN c.expenses, x \in {y \in ExpenseFields : y[1] \in {2, 3} /\ y[2] = 1 /\ y[3] > 0}}
  \cup {ExpenseGet(c, "delete", pk) : pk \in DOMAIN c.expenses}
  \cup {IncomeSelf("save", pk, 1, x[1], x[2]) :
     pk \in {0} \cup DOMAIN c.incomes, x \in {y \in IncomeFields : y[1] \in {2, 3} /\ y[2] > 0}}
  \cup {IncomeGet(c, "delete", pk) : pk \in DOMAIN c.incomes}
  \cup {TransferSelf("save", pk, 1, x[1], x[2], x[3]) :
     pk \in {0} \cup DOMAIN c.transfers,
     x \in {y \in TransferFields : y[1] # y[2] /\ y[1] # 4 /\ y[2] # 4 /\ y[3] > 0}}
  \cup {TransferGet(c, "delete", pk) : pk \in DOMAIN c.transfers}

\* A worker begins a save() or delete() call.
Request(w) ==
  /\ tx[w].pc = "idle"
  /\ \E self \in Requests(Cfg) :
        \E scan \in ScanOrders(self) : Install(BeginScan(Cfg, w, self, scan))
  /\ UNCHANGED <<last, trip>>

\* Mutant of Step: a commit does not add the transaction's deltas to the rows
\* but overwrites each balance it changed with the value the request found on
\* arrival plus its own deltas.
Step_overwrites(w) ==
  /\ Running(Cfg, w)
  /\ ~Blocked(Cfg, w)
  /\ \E c \in {Stmt(Cfg, w)} :
        Install(IF c.tx[w].pc = "done" /\ c.tx[w].res = "ok"
                THEN [c EXCEPT !.balance =
                        [a \in Accounts |-> IF tx[w].pend[a] # 0
                                            THEN SeedCfg.balance[a] + tx[w].pend[a]
                                            ELSE c.balance[a]]]
                ELSE c)
  /\ UNCHANGED <<last, trip>>

\* A worker executes the next statement of its mutation, unless that statement
\* waits for a row lock.
Step(w) ==
  /\ Running(Cfg, w)
  /\ ~Blocked(Cfg, w)
  /\ \E c \in {Stmt(Cfg, w)} : Install(c)
  /\ UNCHANGED <<last, trip>>

\* Two transactions wait for each other's row locks: the database aborts one.
DeadlockAbort(w) ==
  /\ \E v \in Workers \ {w} : WaitsFor(Cfg, w, v) /\ WaitsFor(Cfg, v, w)
  /\ Install(Raise(Cfg, w, "deadlock"))
  /\ UNCHANGED <<last, trip>>

ConcInit ==
  /\ accounts = SeedCfg.accounts
  /\ balance = SeedCfg.balance
  /\ expenses = SeedCfg.expenses
  /\ incomes = SeedCfg.incomes
  /\ transfers = SeedCfg.transfers
  /\ seq = SeedCfg.seq
  /\ lock = SeedCfg.lock
  /\ tx = SeedCfg.tx
  /\ last = NoLast
  /\ trip = NoTrip

ConcNext ==
  \E w \in Workers :
     \/ Request(w)
     \/ Step(w)
     \/ DeadlockAbort(w)

SpecConc == ConcInit /\ [][ConcNext]_vars

----------------------------------------------------------------------------
\* SpecTrip: one entry at a time is created, updated any number of times and
\* deleted, on a database that earlier mutations have built.

\* The databases a round trip starts from.
TripStarts ==
  {EmptyCfg,
   Exec(EmptyCfg, "w1", IncomeSelf("save", 0, 1, 2, MaxAmt)),
   SeedCfg}

\* The creates that start a round trip: save() of every new instance that
\* full_clean() accepts.
TripCreates == {s \in Requests(Cfg) : s.kind = "save" /\ s.pk = 0}

\* The save() calls on the followed entry: every field combination.
TripUpdates ==
  CASE trip.type = "exp" ->
         {ExpenseSelf("save", trip.pk, expenses[trip.pk].user, x[1], x[2], x[3]) : x \in ExpenseFields}
    [] trip.type = "inc" ->
         {IncomeSelf("save", trip.pk, incomes[trip.pk].user, x[1], x[2]) : x \in IncomeFields}
    [] trip.type = "tr" ->
         {TransferSelf("save", trip.pk, transfers[trip.pk].user, x[1], x[2], x[3]) : x \in TransferFields}

\* The followed entry as loaded from its row, for delete().
TripLoaded ==
  CASE trip.type = "exp" -> ExpenseGet(Cfg, "delete", trip.pk)
    [] trip.type = "inc" -> IncomeGet(Cfg, "delete", trip.pk)
    [] trip.type = "tr" -> TransferGet(Cfg, "delete", trip.pk)

\* An entry is created; when the create succeeds its round trip is followed
\* from the balances before the create.
TripCreate ==
  /\ trip.type = "none"
  /\ trip.n < MaxTrips
  /\ \E self \in TripCreates :
        /\ Complete(self)
        /\ trip' = IF last'.res = "ok"
                   THEN [type |-> self.type, pk |-> seq[self.type], balance |-> balance,
                         updated |-> FALSE, n |-> trip.n + 1]
                   ELSE trip

\* The followed entry is updated (or the update is rejected).
TripUpdate ==
  /\ trip.type # "none"
  /\ \E self \in TripUpdates :
        /\ Complete(self)
        /\ trip' = [trip EXCEPT !.updated = @ \/ last'.res = "ok"]

\* The followed entry is deleted.
TripDelete ==
  /\ trip.type # "none"
  /\ Complete(TripLoaded)
  /\ trip' = [trip EXCEPT !.type = "none"]

TripInit ==
  /\ \E c \in TripStarts :
        /\ accounts = c.accounts
        /\ balance = c.balance
        /\ expenses = c.expenses
        /\ incomes = c.incomes
        /\ transfers = c.transfers
        /\ seq = c.seq
        /\ lock = c.lock
        /\ tx = c.tx
  /\ last = NoLast
  /\ trip = NoTrip

TripNext ==
  \/ TripCreate
  \/ TripUpdate
  \/ TripDelete

SpecTrip == TripInit /\ [][TripNext]_vars

----------------------------------------------------------------------------
\* SpecFail: one worker executes one mutation, statement by statement, on a
\* database that earlier mutations have built; the statement that persists
\* the entry row may fail.

\* The mutations the worker may take up: every save request, valid or not, for
\* a new entry, for each stored entry and for an entry whose row is gone (the
\* instance in hand is stale), the delete of each stored entry and the delete
\* of an Expense, an Income and a Transfer whose row is gone.
FailRequests(c) ==
  {ExpenseSelf("save", pk, 1, x[1], x[2], x[3]) :
     pk \in {0, c.seq.exp} \cup DOMAIN c.expenses, x \in ExpenseFields}
  \cup {ExpenseGet(c, "delete", pk) : pk \in DOMAIN c.expenses}
  \cup {IncomeSelf("save", pk, 1, x[1], x[2]) :
     pk \in {0, c.seq.inc} \cup DOMAIN c.incomes, x \in IncomeFields}
  \cup {IncomeGet(c, "delete", pk) : pk \in DOMAIN c.incomes}
  \cup {TransferSelf("save", pk, 1, x[1], x[2], x[3]) :
     pk \in {0, c.seq.tr} \cup DOMAIN c.transfers, x \in TransferFields}
  \cup {TransferGet(c, "delete", pk) : pk \in DOMAIN c.transfers}
  \cup {ExpenseSelf("delete", c.seq.exp, 1, 2, 1, 1),
        IncomeSelf("delete", c.seq.inc, 1, 2, 1),
        TransferSelf("delete", c.seq.tr, 1, 2, 3, 1)}

\* The worker receives a request.
FailRequest ==
  /\ tx["w1"].pc = "idle"
  /\ \E self \in FailRequests(Cfg) :
        \E scan \in ScanOrders(self) : Install(BeginScan(Cfg, "w1", self, scan))
  /\ UNCHANGED <<last, trip>>

\* The worker executes the next statement.
FailStep == Step("w1")

\* super().save() / super().delete() raises (the database refuses the row's
\* INSERT, UPDATE or DELETE): the exception leaves the atomic block.
PersistenceFails ==
  /\ tx["w1"].pc \in {"super_save", "super_delete"}
  /\ Install(Raise(Cfg, "w1", "error"))
  /\ UNCHANGED <<last, trip>>

FailNext ==
  \/ FailRequest
  \/ FailStep
  \/ PersistenceFails

SpecFail == TripInit /\ [][FailNext]_vars

----------------------------------------------------------------------------
\* SpecAcct: the accounts' life cycle.  While no request is in flight, users
\* create, rename and delete accounts, delete entries and deposit one salary,
\* each request handled alone from its first query to its last.  Then the two
\* workers each take up one request (a call of get_external_account, a salary,
\* the renaming or the deletion of an account, the deletion of an entry) and
\* execute it query by query, their queries interleaved.

\* The database the account requests meet: an Income of MaxAmt on account 2 and
\* a Transfer of 1 from account 2 to account 3.
AcctSeedCfg ==
  ExecAll(EmptyCfg, "w1", << IncomeSelf("save", 0, 1, 2, MaxAmt),
                             TransferSelf("save", 0, 1, 2, 3, 1) >>)

\* TransferViewSet.salary, the whole request executed alone.
TransferViewSet_salary_alone(c, w, user, to_account, amount) ==
  Run(Begin(c, w, SalarySelf(user, to_account, amount)), w)

\* There is a primary key left for one more Account row.
RoomForAccount == seq.acc \in Accounts

\* No request is in flight.
AllIdle == \A w \in Workers : tx[w].pc = "idle"

\* A request handled by the views from start to end; its outcome is recorded.
Handled(c, type, op) ==
  /\ Install([c EXCEPT !.tx["w1"] = IdleTx])
  /\ last' = [type |-> type, op |-> op, res |-> c.tx["w1"].res, change |-> "none"]
  /\ UNCHANGED trip

\* POST /accounts/, handled alone.
AccountCreate ==
  /\ AllIdle
  /\ seq.acc + 1 \in Accounts    \* the last key is left to get_external_account
  /\ \E u \in User, name \in Names :
        \E c \in {Run(Begin(Cfg, "w1", AccountSelf("create", 0, u, name)), "w1")} :
           Handled(c, "acct", "create")

\* PUT /accounts/a/, handled alone.
AccountUpdate ==
  /\ AllIdle
  /\ \E u \in User, name \in Names :
        \E a \in Account_queryset(Cfg, u) :
           \E c \in {Run(Begin(Cfg, "w1", AccountSelf("update", a, u, name)), "w1")} :
              Handled(c, "acct", "update")

\* DELETE /accounts/a/, handled alone.
AccountDelete ==
  /\ AllIdle
  /\ \E u \in User :
        \E a \in Account_queryset(Cfg, u) :
           \E c \in {Run(Begin(Cfg, "w1", AccountSelf("destroy", a, u, "")), "w1")} :
              Handled(c, "acct", "delete")

\* POST /transfers/salary/, handled alone.
Salary ==
  /\ AllIdle
  /\ seq.tr = AcctSeedCfg.seq.tr
  /\ \E u \in User, amount \in {0, MaxAmt} :
        \E a \in DOMAIN accounts :
           \E c \in {TransferViewSet_salary_alone(Cfg, "w1", u, a, amount)} : Handled(c, "tr", "salary")

\* An entry is deleted (the requests of the one-at-a-time specification),
\* handled alone.
EntryDelete ==
  /\ AllIdle
  /\ (ExpenseDelete \/ IncomeDelete \/ TransferDelete)

\* The users the workers call get_external_account for: those who have no
\* system account at first.
FirstCallUsers == {u \in User : SystemAccounts(AcctSeedCfg, u) = {}}

\* The accounts the workers' requests name: a regular account of each user.
RaceAccounts == {3, 4}

\* The requests for an account a worker may take up: the renaming and the
\* deletion of an account by its user.
AccountRequests(c) ==
  {AccountSelf("update", a, c.accounts[a].user, name) :
     a \in RaceAccounts \cap DOMAIN c.accounts, name \in Names \ {ExternalName}}
  \cup {AccountSelf("destroy", a, c.accounts[a].user, "") : a \in RaceAccounts \cap DOMAIN c.accounts}

\* The requests a worker may take up in SpecAcct: a call of
\* get_external_account, a salary of a user who has no system account at
\* first, a request for that user's account.
AcctRequests(c) ==
  {ExternalSelf(u) : u \in FirstCallUsers}
  \cup {SalarySelf(c.accounts[a].user, a, MaxAmt) :
          a \in {b \in RaceAccounts \cap DOMAIN c.accounts : c.accounts[b].user \in FirstCallUsers}}
  \cup {self \in AccountRequests(c) : self.user \in FirstCallUsers}

\* A worker takes up a request.
AcctRequest(w) ==
  /\ tx[w].pc = "idle"
  /\ \E self \in AcctRequests(Cfg) :
        \E scan \in ScanOrders(self) : Install(BeginScan(Cfg, w, self, scan))
  /\ last' = NoLast
  /\ UNCHANGED trip

AcctNext ==
  \/ AccountCreate
  \/ AccountUpdate
  \/ AccountDelete
  \/ Salary
  \/ EntryDelete
  \/ \E w \in Workers : AcctRequest(w)
  \/ \E w \in Workers : Step(w)
  \/ \E w \in Workers : DeadlockAbort(w)

AcctInit ==
  /\ accounts = AcctSeedCfg.accounts
  /\ balance = AcctSeedCfg.balance
  /\ expenses = AcctSeedCfg.expenses
  /\ incomes = AcctSeedCfg.incomes
  /\ transfers = AcctSeedCfg.transfers
  /\ seq = AcctSeedCfg.seq
  /\ lock = AcctSeedCfg.lock
  /\ tx = AcctSeedCfg.tx
  /\ last = NoLast
  /\ trip = NoTrip

SpecAcct == AcctInit /\ [][AcctNext]_vars

----------------------------------------------------------------------------
\* SpecRace: requests against the entries of an account.  After the requests
\* handled alone, each worker takes up one request (PUT or DELETE of an
\* account, DELETE of a stored entry, a salary) or one save() or delete() of
\* an entry, and executes it query by query; a transaction waits for the row
\* locks of the other, and the database aborts one of two that wait for each
\* other.

\* The requests and calls a worker may take up: PUT and DELETE of an account;
\* save() of a new Income on a raced account and of a new Transfer to it,
\* delete() of a stored Income (the instance as loaded from its row); POST of
\* an Income on account 4 by its user, PUT of a stored Transfer with another
\* amount and DELETE of a stored Income or Transfer by the entry's user; a
\* salary of MaxAmt on a raced account by its user.
RaceRequests(c) ==
  AccountRequests(c)
  \cup {IncomeSelf("save", 0, 1, 3, 1), TransferSelf("save", 0, 1, 2, 3, 1)}
  \cup {IncomeGet(c, "delete", pk) : pk \in DOMAIN c.incomes}
  \cup {IncomeSelf("create", 0, 2, 4, 1)}
  \cup {TransferSelf("update", pk, c.transfers[pk].user, c.transfers[pk].from_account,
                     c.transfers[pk].to_account, MaxAmt) : pk \in DOMAIN c.transfers}
  \cup {DestroySelf("inc", pk, c.incomes[pk].user) : pk \in DOMAIN c.incomes}
  \cup {DestroySelf("tr", pk, c.transfers[pk].user) : pk \in DOMAIN c.transfers}
  \cup {SalarySelf(c.accounts[a].user, a, MaxAmt) : a \in RaceAccounts \cap DOMAIN c.accounts}

\* A worker takes up a request.
RaceRequest(w) ==
  /\ tx[w].pc = "idle"
  /\ \E self \in RaceRequests(Cfg) :
        \E scan \in ScanOrders(self) : Install(BeginScan(Cfg, w, self, scan))
  /\ last' = NoLast
  /\ UNCHANGED trip

RaceNext ==
  \/ AccountDelete
  \/ EntryDelete
  \/ \E w \in Workers : RaceRequest(w)
  \/ \E w \in Workers : Step(w)
  \/ \E w \in Workers : DeadlockAbort(w)

SpecRace == AcctInit /\ [][RaceNext]_vars

----------------------------------------------------------------------------
\* SpecSeed: the management command seed (Command.handle), one statement per
\* step, on the initial database.  last.op is the statement the command is at,
\* trip.n the iteration of its loop, trip.pk the number of runs started.

\* user = User.objects.first()
SeedUser == Min(User)

\* The names of the two accounts the command provides and the opening balances
\* it gives them (15000.00 and 8000.00), in the unit of the model's amounts.
SeedAccounts ==
  << [name |-> "SBI Savings", opening |-> 2 * MaxAmt],
     [name |-> "HDFC Checking", opening |-> MaxAmt] >>

\* acc1 and acc2 once the command has them.
SeedAccount(c, i) ==
  CHOOSE a \in DOMAIN c.accounts :
     c.accounts[a].user = SeedUser /\ c.accounts[a].name = SeedAccounts[i].name

\* A category of the user, as Category.objects.filter(user=user, ...).first()
\* returns it.
SeedCategory == CHOOSE k \in Categories : Category[k].user = SeedUser

\* acc1, _ = Account.objects.get_or_create(...) for i = 1 and acc2, _ = ...
\* for i = 2: each call is a statement of its own and commits by itself.
\* Between the two, last.op is "accounts" and trip.n the calls made.
SeedGetAccount(i) ==
  /\ IF i = 1
     THEN /\ last = NoLast \/ (last.type = "seed" /\ last.op \in {"done", "failed"})
          /\ trip.pk < MaxSeedRuns
     ELSE last.type = "seed" /\ last.op = "accounts" /\ trip.n = i - 1
  /\ \E c \in {Account_get_or_create(Cfg, "w1", SeedUser, SeedAccounts[i].name,
                                      SeedAccounts[i].opening)} :
        Install([c EXCEPT !.tx["w1"] = IdleTx])
  /\ last' = [type |-> "seed", op |-> IF i = Len(SeedAccounts) THEN "incomes" ELSE "accounts",
              res |-> "ok", change |-> "none"]
  /\ trip' = [trip EXCEPT !.pk = IF i = 1 THEN @ + 1 ELSE @,
                          !.n = IF i = Len(SeedAccounts) THEN 0 ELSE i]

\* One iteration of a loop of the command: Model.objects.create(...) of one
\* of the given instances; an exception ends the command.
SeedCreate(loop, next, instances) ==
  /\ last.type = "seed" /\ last.op = loop
  /\ \E self \in instances :
        \E c \in {Run(Begin(Cfg, "w1", self), "w1")} :
           /\ Install([c EXCEPT !.tx["w1"] = IdleTx])
           /\ last' = [type |-> "seed",
                       op |-> IF c.tx["w1"].res # "ok" THEN "failed"
                              ELSE IF trip.n + 1 = MaxSeedEntries THEN next ELSE loop,
                       res |-> c.tx["w1"].res, change |-> "none"]
  /\ trip' = [trip EXCEPT !.n = IF @ + 1 = MaxSeedEntries THEN 0 ELSE @ + 1]

\* Income.objects.create(user=user, account=random.choice(accounts), amount=...)
SeedIncome ==
  SeedCreate("incomes", "expenses",
             {IncomeSelf("save", 0, SeedUser, SeedAccount(Cfg, i), amount) :
                i \in DOMAIN SeedAccounts, amount \in Amounts})

\* Expense.objects.create(user=user, account=random.choice(accounts), ...)
SeedExpense ==
  SeedCreate("expenses", "transfers",
             {ExpenseSelf("save", 0, SeedUser, SeedAccount(Cfg, i), SeedCategory, amount) :
                i \in DOMAIN SeedAccounts, amount \in Amounts})

\* Transfer.objects.create(user=user, from_account=acc1, to_account=acc2, ...)
SeedTransfer ==
  SeedCreate("transfers", "done",
             {TransferSelf("save", 0, SeedUser, SeedAccount(Cfg, 1), SeedAccount(Cfg, 2), amount) :
                amount \in Amounts})

SeedNext ==
  \/ \E i \in DOMAIN SeedAccounts : SeedGetAccount(i)
  \/ SeedIncome
  \/ SeedExpense
  \/ SeedTransfer

SpecSeed == Init /\ [][SeedNext]_vars

----------------------------------------------------------------------------
\* The ViewSets run alone: a whole request of `user`.

\* ModelViewSet.create, the whole request executed alone.
ModelViewSet_create(c, w, user, self) ==
  Run(Begin(c, w, [self EXCEPT !.kind = "create", !.pk = 0, !.user = user]), w)

\* ModelViewSet.update, the whole request executed alone.
ModelViewSet_update(c, w, user, self) ==
  Run(Begin(c, w, [self EXCEPT !.kind = "update", !.user = user]), w)

\* ModelViewSet.destroy, the whole request executed alone.
ModelViewSet_destroy(c, w, user, type, pk) == Run(Begin(c, w, DestroySelf(type, pk, user)), w)

----------------------------------------------------------------------------
\* SpecView: the requests of the users through the ViewSets, one at a time,
\* from zero balances and no entries.  Every request names any account and
\* any stored entry, also those of another user.

\* The amounts of the payloads: 0 and a positive one.
ViewAmounts == {0, MaxAmt}

\* The payloads for an entry of the given type and primary key (0: a new one).
Payloads(c, type, pk) ==
  CASE type = "exp" ->
         {ExpenseSelf("save", pk, 0, x[1], x[2], x[3]) :
            x \in (DOMAIN c.accounts) \X Categories \X ViewAmounts}
    [] type = "inc" ->
         {IncomeSelf("save", pk, 0, x[1], x[2]) : x \in (DOMAIN c.accounts) \X ViewAmounts}
    [] type = "tr" ->
         {TransferSelf("save", pk, 0, x[1], x[2], x[3]) :
            x \in (DOMAIN c.accounts) \X (DOMAIN c.accounts) \X ViewAmounts}

EntryTypes == {"exp", "inc", "tr"}

\* POST /expenses/, /incomes/, /transfers/.
ViewCreate ==
  /\ Created(Cfg) < MaxCreates
  /\ \E u \in User, type \in EntryTypes :
        \E self \in Payloads(Cfg, type, 0) :
           \E c \in {ModelViewSet_create(Cfg, "w1", u, self)} : Handled(c, type, "create")

\* PUT /expenses/pk/, /incomes/pk/, /transfers/pk/.
ViewUpdate ==
  \E u \in User, type \in EntryTypes :
     \E pk \in DOMAIN Table(Cfg, type) :
        \E self \in Payloads(Cfg, type, pk) :
           \E c \in {ModelViewSet_update(Cfg, "w1", u, self)} : Handled(c, type, "update")

\* DELETE /expenses/pk/, /incomes/pk/, /transfers/pk/.
ViewDestroy ==
  \E u \in User, type \in EntryTypes :
     \E pk \in DOMAIN Table(Cfg, type) :
        \E c \in {ModelViewSet_destroy(Cfg, "w1", u, type, pk)} : Handled(c, type, "destroy")

\* POST /transfers/salary/.
ViewSalary ==
  /\ Created(Cfg) < MaxCreates
  /\ \E u \in User, amount \in ViewAmounts :
        \E a \in DOMAIN accounts :
           \E c \in {TransferViewSet_salary_alone(Cfg, "w1", u, a, amount)} : Handled(c, "tr", "salary")

ViewNext ==
  \/ ViewCreate
  \/ ViewUpdate
  \/ ViewDestroy
  \/ ViewSalary

SpecView == Init /\ [][ViewNext]_vars

----------------------------------------------------------------------------
\* The balance the persisted entries account for.

RECURSIVE SumAmounts(_, _)
\* Sum of f[k].amount over the keys k in S.
SumAmounts(f, S) ==
  IF S = {} THEN 0
  ELSE LET k == CHOOSE x \in S : TRUE
       IN  f[k].amount + SumAmounts(f, S \ {k})

LedgerBalance(c, a) ==
    SumAmounts(c.incomes, {k \in DOMAIN c.incomes : c.incomes[k].account = a})
  + SumAmounts(c.transfers, {k \in DOMAIN c.transfers : c.transfers[k].to_account = a})
  - SumAmounts(c.expenses, {k \in DOMAIN c.expenses : c.expenses[k].account = a})
  - SumAmounts(c.transfers, {k \in DOMAIN c.transfers : c.transfers[k].from_account = a})

\* The persisted data of a configuration.
Data(c) == <<c.accounts, c.balance, c.expenses, c.incomes, c.transfers>>

\* No mutation is in flight; worker w's call is over.
Quiescent == \A w \in Workers : ~Running(Cfg, w)
Finished(w) == tx[w].pc = "done"

BalancesMatchLedger(c) == \A a \in Accounts : c.balance[a] = LedgerBalance(c, a)

----------------------------------------------------------------------------
\* Claims about the mutations executed one at a time (Spec).

EntriesUnchanged ==
  /\ expenses' = expenses
  /\ incomes' = incomes
  /\ transfers' = transfers

\* The step completed a successful update of an entry of the given type.
UpdatedOk(type) == last'.type = type /\ last'.op = "update" /\ last'.res = "ok"

\* C1: with the mutations executed one at a time from zero balances and no
\* entries, every account's balance equals incomes + transfers in - expenses
\* - transfers out over the persisted entries.
C1_SequentialBalanceInvariant == BalancesMatchLedger(Cfg)

\* An Income was deleted while a Transfer it had funded persists: the deletes,
\* creates and two entry types have acted on one account.
C1_Witness ==
  /\ last.type = "inc" /\ last.op = "delete" /\ last.res = "ok"
  /\ \E k \in DOMAIN transfers : transfers[k].from_account = 2
  /\ balance[2] < 0

\* C3: a Transfer update rejected for insufficient funds changes no balance
\* and no stored row.
C3_RejectedTransferUpdateNoEffect ==
  [][(last'.type = "tr" /\ last'.op = "update" /\ last'.res = "insufficient")
       => (balance' = balance /\ EntriesUnchanged)]_vars

\* A Transfer update has just been rejected for insufficient funds.
C3_Witness ==
  /\ last.type = "tr" /\ last.op = "update" /\ last.res = "insufficient"
  /\ DOMAIN transfers # {}

\* C8: an update of an Expense (Income) from amount a to amount b on the same
\* account changes that account's balance by -(b - a) (by +(b - a)) and no
\* other balance.
C8_EditCorrectness ==
  [][/\ (UpdatedOk("exp") /\ last'.change \in {"amount", "same"})
          => \E pk \in DOMAIN expenses :
                LET old == expenses[pk]
                    new == expenses'[pk]
                IN  /\ expenses' = Put(expenses, pk, new)
                    /\ new.account = old.account
                    /\ balance' = [balance EXCEPT ![old.account] = @ - (new.amount - old.amount)]
     /\ (UpdatedOk("inc") /\ last'.change \in {"amount", "same"})
          => \E pk \in DOMAIN incomes :
                LET old == incomes[pk]
                    new == incomes'[pk]
                IN  /\ incomes' = Put(incomes, pk, new)
                    /\ new.account = old.account
                    /\ balance' = [balance EXCEPT ![old.account] = @ + (new.amount - old.amount)]
    ]_vars

\* An Expense has just been edited to another amount on its account.
C8_Witness ==
  last.type = "exp" /\ last.op = "update" /\ last.res = "ok" /\ last.change = "amount"

\* The configuration without the Expense (Income) pk.
WithoutExpense(c, pk) == [c EXCEPT !.expenses = Remove(c.expenses, pk)]
WithoutIncome(c, pk) == [c EXCEPT !.incomes = Remove(c.incomes, pk)]

\* C9: an update that moves an Expense or Income from account A to account B
\* leaves A with the balance it has without the entry (the old amount is given
\* back in full) and B with its prior balance and the new amount applied.
C9_ReassignmentCorrectness ==
  [][/\ (UpdatedOk("exp") /\ last'.change \in {"account", "both"})
          => \E pk \in DOMAIN expenses :
                LET old == expenses[pk]
                    new == expenses'[pk]
                IN  /\ expenses' = Put(expenses, pk, new)
                    /\ new.account # old.account
                    /\ balance'[old.account] = balance[old.account] + old.amount
                    /\ balance'[old.account] = LedgerBalance(WithoutExpense(Cfg, pk), old.account)
                    /\ balance'[new.account] = balance[new.account] - new.amount
     /\ (UpdatedOk("inc") /\ last'.change \in {"account", "both"})
          => \E pk \in DOMAIN incomes :
                LET old == incomes[pk]
                    new == incomes'[pk]
                IN  /\ incomes' = Put(incomes, pk, new)
                    /\ new.account # old.account
                    /\ balance'[old.account] = balance[old.account] - old.amount
                    /\ balance'[old.account] = LedgerBalance(WithoutIncome(Cfg, pk), old.account)
                    /\ balance'[new.account] = balance[new.account] + new.amount
    ]_vars

\* An Income has just been moved to another account with its amount unchanged.
C9_Witness ==
  last.type = "inc" /\ last.op = "update" /\ last.res = "ok" /\ last.change = "account"

\* The reference update: the old entry is reversed in full, then the new one
\* applied in full (sign -1 for an Expense, +1 for an Income).
ReferenceUpdate(bal, old, new, sign) ==
  LET reversed == [bal EXCEPT ![old.account] = @ - sign * old.amount]
  IN  [reversed EXCEPT ![new.account] = @ + sign * new.amount]

\* C10: the balances after an Expense/Income update equal those of the
\* reference update that reverses the old entry and applies the new one.
C10_UpdateRefinesReference ==
  [][/\ UpdatedOk("exp")
          => \E pk \in DOMAIN expenses :
                /\ expenses' = Put(expenses, pk, expenses'[pk])
                /\ balance' = ReferenceUpdate(balance, expenses[pk], expenses'[pk], 0 - 1)
     /\ UpdatedOk("inc")
          => \E pk \in DOMAIN incomes :
                /\ incomes' = Put(incomes, pk, incomes'[pk])
                /\ balance' = ReferenceUpdate(balance, incomes[pk], incomes'[pk], 1)
    ]_vars

\* An Income has just been edited to another amount on its account (the
\* difference-only branch).
C10_Witness ==
  last.type = "inc" /\ last.op = "update" /\ last.res = "ok" /\ last.change = "amount"

\* The outcome of a mutation executed alone in the current database.
Outcome(self) == Run(Begin(Cfg, "w1", self), "w1")
ResultOf(self) == Outcome(self).tx["w1"].res

\* Transfer fields <<from_account, to_account, amount>> that pass validation
\* for user u: positive amount, distinct accounts, both owned by u.
ValidTransferFields(u, x) ==
  /\ x[3] > 0
  /\ x[1] # x[2]
  /\ x[1] \in DOMAIN accounts /\ accounts[x[1]].user = u
  /\ x[2] \in DOMAIN accounts /\ accounts[x[2]].user = u

\* The balance of account a with the effect of the stored Transfer pk reversed.
ReversedBalance(pk, a) ==
  balance[a]
  + (IF transfers[pk].from_account = a THEN transfers[pk].amount ELSE 0)
  - (IF transfers[pk].to_account = a THEN transfers[pk].amount ELSE 0)

\* C12: an update of a stored Transfer with valid fields is accepted exactly
\* when the new from-account is a system account or its balance, with the
\* transfer's stored effect reversed, is at least the new amount; otherwise it
\* is rejected for insufficient funds.
C12_UpdateCheckedAgainstReversedState ==
  \A pk \in DOMAIN transfers : \A x \in TransferFields :
     ValidTransferFields(transfers[pk].user, x) =>
        LET self == TransferSelf("save", pk, transfers[pk].user, x[1], x[2], x[3])
            enough == accounts[x[1]].is_system \/ ReversedBalance(pk, x[1]) >= x[3]
        IN  ResultOf(self) = IF enough THEN "ok" ELSE "insufficient"

\* A Transfer that had taken more than its from-account now holds was updated
\* to a smaller amount: the balance before the update was below the new amount
\* and the update was accepted.
C12_Witness ==
  /\ last.type = "tr" /\ last.op = "update" /\ last.res = "ok" /\ last.change = "amount"
  /\ \E k \in DOMAIN transfers :
        /\ ~accounts[transfers[k].from_account].is_system
        /\ transfers[k].amount < MaxAmt
        /\ balance[transfers[k].from_account] < MaxAmt

\* C13: a create of a Transfer with valid fields from a non-system account is
\* rejected for insufficient funds, changing no balance and no row, exactly
\* when the from-account's balance is below the amount; with the amount equal
\* to the balance it succeeds and leaves the from-account at 0.
C13_CreateFundsCheck ==
  \A u \in RequestUsers : \A x \in TransferFields :
     (ValidTransferFields(u, x) /\ ~accounts[x[1]].is_system) =>
        LET self == TransferSelf("save", 0, u, x[1], x[2], x[3])
        IN  \A c \in {Outcome(self)} :
               /\ c.tx["w1"].res = IF balance[x[1]] < x[3] THEN "insufficient" ELSE "ok"
               /\ (balance[x[1]] < x[3]) => Data(c) = Data(Cfg)
               /\ (balance[x[1]] >= x[3]) =>
                     /\ c.balance[x[1]] = balance[x[1]] - x[3]
                     /\ c.transfers = Put(transfers, seq.tr, TransferRow(self))
               /\ (balance[x[1]] = x[3]) => c.balance[x[1]] = 0

\* A Transfer of the whole balance of a non-system account has just been
\* created: the account is at 0.
C13_Witness ==
  /\ last.type = "tr" /\ last.op = "create" /\ last.res = "ok"
  /\ \E k \in DOMAIN transfers :
        /\ k = seq.tr - 1
        /\ ~accounts[transfers[k].from_account].is_system
        /\ balance[transfers[k].from_account] = 0
        /\ transfers[k].amount = MaxAmt

\* Expense fields <<account, category, amount>> that must fail validation for
\* user u: an account or category of another user, a system account, a
\* non-positive amount.
BadExpenseFields(u, x) ==
  \/ accounts[x[1]].user # u
  \/ Category[x[2]].user # u
  \/ accounts[x[1]].is_system
  \/ x[3] <= 0

\* Income fields <<account, amount>> that must fail validation for user u.
BadIncomeFields(u, x) ==
  \/ accounts[x[1]].user # u
  \/ accounts[x[1]].is_system
  \/ x[2] <= 0

\* Transfer fields <<from_account, to_account, amount>> that must fail
\* validation for user u: identical accounts, an account of another user, a
\* non-positive amount.
BadTransferFields(u, x) ==
  \/ x[1] = x[2]
  \/ accounts[x[1]].user # u
  \/ accounts[x[2]].user # u
  \/ x[3] <= 0

\* The mutation was refused by validation and left the database as it was.
RefusedWithoutEffect(self) ==
  \A c \in {Outcome(self)} :
     c.tx["w1"].res = "invalid" /\ Data(c) = Data(Cfg) /\ c.seq = seq

\* C19: a create or update of an Expense, Income or Transfer whose fields fail
\* validation changes no balance and stores or alters no row.
C19_ValidationPrecedesMutation ==
  \A u \in RequestUsers :
     /\ \A pk \in {0} \cup DOMAIN expenses : \A x \in ExpenseFields :
           BadExpenseFields(u, x) =>
              RefusedWithoutEffect(ExpenseSelf("save", pk, u, x[1], x[2], x[3]))
     /\ \A pk \in {0} \cup DOMAIN incomes : \A x \in IncomeFields :
           BadIncomeFields(u, x) =>
              RefusedWithoutEffect(IncomeSelf("save", pk, u, x[1], x[2]))
     /\ \A pk \in {0} \cup DOMAIN transfers : \A x \in TransferFields :
           BadTransferFields(u, x) =>
              RefusedWithoutEffect(TransferSelf("save", pk, u, x[1], x[2], x[3]))

\* An update of a stored Expense has just been refused by validation while the
\* account it is charged to carries its amount.
C19_Witness ==
  /\ last.type = "exp" /\ last.op = "update" /\ last.res = "invalid"
  /\ \E k \in DOMAIN expenses : balance[expenses[k].account] = 0 - expenses[k].amount

\* C20: every persisted Expense, Income and Transfer has a positive amount;
\* every Expense and Income is on a non-system account of its user (an Expense
\* also under a category of its user); every Transfer runs between two
\* different accounts of its user.
C20_PersistedEntryInvariant ==
  /\ \A k \in DOMAIN expenses :
        /\ expenses[k].amount > 0
        /\ expenses[k].account \in DOMAIN accounts
        /\ accounts[expenses[k].account].user = expenses[k].user
        /\ ~accounts[expenses[k].account].is_system
        /\ Category[expenses[k].category].user = expenses[k].user
  /\ \A k \in DOMAIN incomes :
        /\ incomes[k].amount > 0
        /\ incomes[k].account \in DOMAIN accounts
        /\ accounts[incomes[k].account].user = incomes[k].user
        /\ ~accounts[incomes[k].account].is_system
  /\ \A k \in DOMAIN transfers :
        /\ transfers[k].amount > 0
        /\ transfers[k].from_account # transfers[k].to_account
        /\ {transfers[k].from_account, transfers[k].to_account} \subseteq DOMAIN accounts
        /\ accounts[transfers[k].from_account].user = transfers[k].user
        /\ accounts[transfers[k].to_account].user = transfers[k].user

\* An Income and a Transfer are stored, the latter just updated to run between
\* other accounts.
C20_Witness ==
  /\ last.type = "tr" /\ last.op = "update" /\ last.res = "ok"
  /\ last.change \in {"account", "both"}
  /\ DOMAIN incomes # {} /\ DOMAIN transfers # {}

RECURSIVE SumBalances(_, _)
\* The sum of the balances bal[a] over the accounts a in S.
SumBalances(bal, S) ==
  IF S = {} THEN 0
  ELSE LET a == CHOOSE x \in S : TRUE
       IN  bal[a] + SumBalances(bal, S \ {a})

\* The accounts of user u, the system account included.
AccountsOf(u) == {a \in DOMAIN accounts : accounts[a].user = u}

\* C26: a Transfer create, update or delete, accepted or rejected, leaves the
\* sum of the balances of each user's accounts, system account included,
\* unchanged.
C26_TransfersConserve ==
  [][last'.type = "tr" =>
       \A u \in User :
          SumBalances(balance', AccountsOf(u)) = SumBalances(balance, AccountsOf(u))]_vars

\* A Transfer has just been updated to another amount between other accounts,
\* and balances have moved.
C26_Witness ==
  /\ last.type = "tr" /\ last.op = "update" /\ last.res = "ok" /\ last.change = "both"
  /\ \E a \in DOMAIN accounts : ~accounts[a].is_system /\ balance[a] > 0
  /\ SumBalances(balance, DOMAIN accounts) = 0

\* The accounts a stored row of the given type references.
RowAccounts(type, row) ==
  IF type = "tr" THEN {row.from_account, row.to_account} ELSE {row.account}

\* The accounts whose balance the step changes.
Changed == {a \in Accounts : balance'[a] # balance[a]}

\* The table of the given type after the step.
TableAfter(type) ==
  CASE type = "exp" -> expenses'
    [] type = "inc" -> incomes'
    [] type = "tr" -> transfers'

\* C27: a successful create or delete of an entry changes the balance of
\* exactly the accounts the entry references (its account; for a Transfer its
\* from- and to-account), a successful update changes at most the accounts the
\* stored and the new version reference; the step stores, alters or removes
\* that one row, and every other balance, every other row and every account
\* row is unchanged.
C27_FrameCondition ==
  [][last'.res = "ok" =>
       \A type \in EntryTypes :
          last'.type = type =>
             LET old == Table(Cfg, type)
                 new == TableAfter(type)
             IN  /\ accounts' = accounts
                 /\ \A other \in EntryTypes \ {type} : TableAfter(other) = Table(Cfg, other)
                 /\ last'.op = "create" =>
                       /\ seq[type] \notin DOMAIN old
                       /\ seq[type] \in DOMAIN new
                       /\ new = Put(old, seq[type], new[seq[type]])
                       /\ Changed = RowAccounts(type, new[seq[type]])
                 /\ last'.op = "delete" =>
                       \E pk \in DOMAIN old :
                          /\ new = Remove(old, pk)
                          /\ Changed = RowAccounts(type, old[pk])
                 /\ last'.op = "update" =>
                       \E pk \in DOMAIN old :
                          /\ new = Put(old, pk, new[pk])
                          /\ Changed \subseteq RowAccounts(type, old[pk]) \cup RowAccounts(type, new[pk])
    ]_vars

\* An Expense has just been moved to another account with another amount
\* while an Income and its balance are on record.
C27_Witness ==
  /\ last.type = "exp" /\ last.op = "update" /\ last.res = "ok" /\ last.change = "both"
  /\ DOMAIN incomes # {}
  /\ \E k \in DOMAIN expenses : balance[expenses[k].account] # 0

\* The outcome of saving the stored Transfer pk again with its stored
\* from_account, to_account and amount.
Resaved(pk) == Outcome(TransferGet(Cfg, "save", pk))

\* In every reachable state, saving a stored Transfer again with its amount,
\* from_account and to_account unchanged succeeds and leaves every balance
\* unchanged.
C28_ResaveAlwaysSucceeds ==
  \A pk \in DOMAIN transfers :
     \A c \in {Resaved(pk)} :
        /\ c.tx["w1"].res = "ok"
        /\ c.balance = balance

\* C28: in every reachable state, saving a stored Transfer again with its
\* amount, from_account and to_account unchanged leaves every balance and every
\* stored row unchanged; it succeeds exactly when its from-account is a system
\* account or has a balance of at least zero, and with a from-account below
\* zero it is rejected for insufficient funds.
C28_ResaveLeavesBalances ==
  \A pk \in DOMAIN transfers :
     \A c \in {Resaved(pk)} :
        LET from == transfers[pk].from_account
            enough == accounts[from].is_system \/ balance[from] >= 0
        IN  /\ Data(c) = Data(Cfg)
            /\ c.tx["w1"].res = IF enough THEN "ok" ELSE "insufficient"

\* An Income has just been reduced on the account a stored Transfer had taken
\* the money from, which leaves that account below zero.
C28_Witness ==
  /\ last.type = "inc" /\ last.op = "update" /\ last.res = "ok" /\ last.change = "amount"
  /\ \E k \in DOMAIN transfers :
        /\ ~accounts[transfers[k].from_account].is_system
        /\ balance[transfers[k].from_account] < 0
        /\ \E i \in DOMAIN incomes : incomes[i].account = transfers[k].from_account

----------------------------------------------------------------------------
\* Claims about one entry's round trip (SpecTrip).

\* C11: creating an Expense, Income or Transfer and then deleting it, with any
\* number of updates of that entry in between, leaves every account balance as
\* it was before the create.
C11_CreateDeleteRoundTrip ==
  (trip.n > 0 /\ trip.type = "none" /\ last.op = "delete")
     => (last.res = "ok" /\ balance = trip.balance)

\* A Transfer was created on funded accounts, successfully updated and then
\* deleted.
C11_Witness ==
  /\ trip.n > 0 /\ trip.type = "none" /\ trip.updated
  /\ last.type = "tr" /\ last.op = "delete" /\ last.res = "ok"
  /\ balance = trip.balance
  /\ balance[2] > 0 /\ balance[3] > 0

----------------------------------------------------------------------------
\* Claims about the accounts' life cycle (SpecAcct).

\* The balance of the Account row a, 0 for a row that does not exist yet.
BalanceOf(a) == IF a \in DOMAIN accounts THEN balance[a] ELSE 0

\* C14: a salary of any positive amount to one of the user's regular accounts,
\* handled alone, succeeds whatever the balance of the user's system account:
\* it is drawn on that account, whose balance goes down by the amount (below
\* zero if need be), the deposit account's goes up by it and the Transfer is
\* stored.  No salary request, whatever runs between its queries, is refused
\* for insufficient funds.
C14_SalaryOverdraftExempt ==
  /\ \A u \in User : \A a \in Account_queryset(Cfg, u) :
        \A amount \in Amounts \cup {DecimalMax, DecimalMax + 1} :
           AllIdle =>
              \A c \in {TransferViewSet_salary_alone(Cfg, "w1", u, a, amount)} :
                 /\ c.tx["w1"].res = "ok"
                 /\ \E s \in SystemAccounts(c, u) :
                       /\ c.balance[s] = BalanceOf(s) - amount
                       /\ c.balance[a] = balance[a] + amount
                       /\ c.transfers = Put(transfers, seq.tr,
                                            [user |-> u, from_account |-> s,
                                             to_account |-> a, amount |-> amount])
  /\ \A w \in Workers :
        (tx[w].self.kind = "salary" /\ tx[w].pc = "get_from_acct") =>
           \A c \in {Stmt(Cfg, w)} : c.tx[w].res # "insufficient"

\* C15: every user has at most one system account, and for a user who has one
\* get_external_account returns it, creating no account and changing no balance.
C15_SystemAccountUnique ==
  \A u \in User :
     /\ Cardinality(SystemAccounts(Cfg, u)) <= 1
     /\ SystemAccounts(Cfg, u) # {} =>
           \A c \in {Run(Begin(Cfg, "w1", ExternalSelf(u)), "w1")} :
              /\ c.tx["w1"].res = "ok"
              /\ c.tx["w1"].ret \in SystemAccounts(Cfg, u)
              /\ Data(c) = Data(Cfg)

\* Both workers have called get_external_account for a user who had no system
\* account at first; both returned the one account that now exists.
C15_Witness ==
  /\ \A w \in Workers :
        /\ Finished(w) /\ tx[w].self = ExternalSelf(2) /\ tx[w].res = "ok"
        /\ SystemAccounts(Cfg, 2) = {tx[w].ret}
  /\ SystemAccounts(AcctSeedCfg, 2) = {}

\* C16: when the calls of get_external_account for a user who had no system
\* account have all returned, exactly one system account exists for that user
\* and every call has returned it.
C16_ConcurrentProvisioning ==
  \A u \in User :
     ( /\ SystemAccounts(AcctSeedCfg, u) = {}
       /\ \A w \in Workers : Finished(w) /\ tx[w].self = ExternalSelf(u) )
     => /\ Cardinality(SystemAccounts(Cfg, u)) = 1
        /\ \A w \in Workers : tx[w].res = "ok" /\ tx[w].ret \in SystemAccounts(Cfg, u)

\* C17: every call of get_external_account returns a system account owned by
\* the user it was called for.
C17_ProvisioningTotal ==
  \A w \in Workers :
     (Finished(w) /\ tx[w].self.kind = "get_external")
     => /\ tx[w].res = "ok"
        /\ tx[w].ret \in DOMAIN accounts
        /\ accounts[tx[w].ret].user = tx[w].self.user
        /\ accounts[tx[w].ret].is_system

\* A persisted Expense, Income or Transfer references the Account row a.
EntryReferences(a) ==
  \/ \E k \in DOMAIN expenses : expenses[k].account = a
  \/ \E k \in DOMAIN incomes : incomes[k].account = a
  \/ \E k \in DOMAIN transfers : a \in {transfers[k].from_account, transfers[k].to_account}

\* C18: deleting an Account that a persisted entry references is rejected and
\* changes nothing: Account.delete() called on it raises ProtectedError; a
\* deletion under way, whatever runs between its queries, changes nothing
\* while an entry references the account, its check of the references ends
\* with ProtectedError when it has met a reference and its DELETE is refused
\* (IntegrityError of the foreign key) when the entry was stored after the
\* check; and every persisted entry references accounts that exist.
C18_AccountDeleteProtected ==
  /\ \A a \in DOMAIN accounts :
        EntryReferences(a) =>
           \A c \in {Run(Begin(Cfg, "w1", AccountSelf("delete", a, accounts[a].user, "")), "w1")} :
              c.tx["w1"].res = "protected" /\ Data(c) = Data(Cfg)
  /\ \A w \in Workers :
        (/\ tx[w].self.type = "acct"
         /\ tx[w].self.kind \in {"destroy", "delete"}
         /\ tx[w].pc \in {"collect_expenses", "collect_incomes", "collect_from", "collect_to", "delete_row"}
         /\ tx[w].self.pk \in DOMAIN accounts
         /\ EntryReferences(tx[w].self.pk)) =>
           \A c \in {Stmt(Cfg, w)} :
              /\ Data(c) = Data(Cfg)
              /\ tx[w].pc = "delete_row" => c.tx[w].pc = "done" /\ c.tx[w].res = "integrity"
              /\ tx[w].pc = "collect_to" =>
                    \/ c.tx[w].pc = "done" /\ c.tx[w].res = "protected"
                    \/ c.tx[w].pc = "delete_row" /\ c.tx[w].found = {}
  /\ \A a \in Accounts : EntryReferences(a) => a \in DOMAIN accounts

\* One worker's deletion of account 4 has passed the check of the references
\* and has been rejected at its DELETE, the other worker's salary having been
\* deposited on the account in between; the account is there and referenced.
C18_Witness ==
  /\ \E w \in Workers :
        /\ tx[w].self.kind = "destroy" /\ tx[w].self.type = "acct" /\ tx[w].self.pk = 4
        /\ tx[w].pc = "done" /\ tx[w].res = "integrity" /\ tx[w].found = {}
  /\ \E w \in Workers :
        /\ tx[w].self.kind = "salary" /\ tx[w].self.to_account = 4
        /\ tx[w].pc = "done" /\ tx[w].res = "ok"
  /\ 4 \in DOMAIN accounts
  /\ EntryReferences(4)

----------------------------------------------------------------------------
\* Claims about a mutation whose statements may fail (SpecFail).

\* The step ends the worker's mutation.
Ends == tx["w1"].pc # "done" /\ tx'["w1"].pc = "done"

\* The step leaves the persisted data as it is.
DataUnchanged == accounts' = accounts /\ balance' = balance /\ EntriesUnchanged

\* The step stores, alters or removes exactly the row of the worker's entry; a
\* delete removes a row that was stored.
RowPersisted ==
  LET self == tx["w1"].self
      saved == self.kind = "save"
  IN  /\ saved \/ self.pk \in DOMAIN Table(Cfg, self.type)
      /\ CASE self.type = "exp" ->
                /\ expenses' = IF saved
                               THEN Put(expenses, IF self.pk > 0 THEN self.pk ELSE seq.exp, ExpenseRow(self))
                               ELSE Remove(expenses, self.pk)
                /\ incomes' = incomes /\ transfers' = transfers
           [] self.type = "inc" ->
                /\ incomes' = IF saved
                              THEN Put(incomes, IF self.pk > 0 THEN self.pk ELSE seq.inc, IncomeRow(self))
                              ELSE Remove(incomes, self.pk)
                /\ expenses' = expenses /\ transfers' = transfers
           [] self.type = "tr" ->
                /\ transfers' = IF saved
                                THEN Put(transfers, IF self.pk > 0 THEN self.pk ELSE seq.tr, TransferRow(self))
                                ELSE Remove(transfers, self.pk)
                /\ expenses' = expenses /\ incomes' = incomes

\* C22: a mutation that fails at any step (validation, funds check, missing
\* previous row, or the row's persistence after the balance deltas were issued)
\* leaves every balance and every row as they were; nothing of a mutation is
\* committed before it ends; balance deltas are committed only together with
\* the change of the entry's row (the row stored, altered, or a stored row
\* removed), and the row change only together with all the deltas issued.
C22_AllOrNothing ==
  [][/\ ~Ends => DataUnchanged
     /\ (Ends /\ tx'["w1"].res # "ok") => DataUnchanged
     /\ (Ends /\ tx'["w1"].res = "ok") =>
           /\ balance' = [a \in Accounts |-> balance[a] + tx["w1"].pend[a]]
           /\ RowPersisted
    ]_vars

----------------------------------------------------------------------------
\* Claims about the requests through the ViewSets (SpecView).

\* The Transfer rows configuration c stores that the current database does
\* not store, or stores with other fields.
NewTransfers(c) ==
  {k \in DOMAIN c.transfers : k \notin DOMAIN transfers \/ c.transfers[k] # transfers[k]}

\* C21: a create or update of a Transfer through the regular routes whose
\* from-account or to-account is a system account is rejected and changes
\* nothing; every Transfer a salary request stores runs from the system account
\* of the requesting user to a non-system account of that user; no stored
\* Transfer has a system account as its to-account.
C21_SystemCounterpartyPolicy ==
  /\ \A u \in User : \A pk \in {0} \cup get_queryset(Cfg, u, "tr") :
        \A self \in Payloads(Cfg, "tr", pk) :
           (accounts[self.from_account].is_system \/ accounts[self.to_account].is_system) =>
              \A c \in {IF pk = 0 THEN ModelViewSet_create(Cfg, "w1", u, self)
                                  ELSE ModelViewSet_update(Cfg, "w1", u, self)} :
                 c.tx["w1"].res = "invalid" /\ Data(c) = Data(Cfg)
  /\ \A u \in User : \A a \in DOMAIN accounts : \A amount \in ViewAmounts :
        RoomForAccount =>
           \A c \in {TransferViewSet_salary_alone(Cfg, "w1", u, a, amount)} :
              \A k \in NewTransfers(c) :
                 LET t == c.transfers[k]
                 IN  /\ t.user = u
                     /\ t.from_account \in SystemAccounts(c, u)
                     /\ t.to_account = a
                     /\ t.to_account \in Account_queryset(c, u)
  /\ \A k \in DOMAIN transfers :
        /\ ~accounts[transfers[k].to_account].is_system
        /\ accounts[transfers[k].from_account].is_system =>
              transfers[k].from_account \in SystemAccounts(Cfg, transfers[k].user)

\* User 2's salary, drawn on the system account provided for it, is stored, and
\* an update of a Transfer through the regular route has just been rejected.
C21_Witness ==
  /\ last.type = "tr" /\ last.op = "update" /\ last.res = "invalid"
  /\ \E k \in DOMAIN transfers :
        /\ transfers[k].user = 2
        /\ accounts[transfers[k].from_account].is_system
        /\ transfers[k].from_account \notin DOMAIN Account
        /\ balance[transfers[k].to_account] = MaxAmt

\* Configuration c differs from the current database only in accounts of user
\* u and in entries of user u that are attached to accounts of user u.
OwnChangesOnly(u, c) ==
  /\ \A a \in DOMAIN accounts :
        accounts[a].user # u =>
           /\ a \in DOMAIN c.accounts
           /\ c.accounts[a] = accounts[a]
           /\ c.balance[a] = balance[a]
  /\ \A a \in DOMAIN c.accounts \ DOMAIN accounts : c.accounts[a].user = u
  /\ \A type \in EntryTypes :
        /\ \A k \in DOMAIN Table(c, type) :
              (k \notin DOMAIN Table(Cfg, type) \/ Table(c, type)[k] # Table(Cfg, type)[k]) =>
                 /\ Table(c, type)[k].user = u
                 /\ \A a \in RowAccounts(type, Table(c, type)[k]) :
                       a \in DOMAIN c.accounts /\ c.accounts[a].user = u
        /\ \A k \in DOMAIN Table(Cfg, type) :
              Table(Cfg, type)[k].user # u =>
                 k \in DOMAIN Table(c, type) /\ Table(c, type)[k] = Table(Cfg, type)[k]

\* The request of user u that led to c respected the other users' data.
Isolated(u, c) == Data(c) = Data(Cfg) \/ OwnChangesOnly(u, c)

\* C25: whatever request a user sends (a create, update or delete of an entry
\* naming any account and any stored entry, a salary to any account, the
\* provisioning of the system account), it changes no balance and no row of an
\* account of another user, changes and removes no entry of another user, and
\* every entry it stores or alters is the user's own, attached to the user's
\* own accounts; every stored entry is attached to accounts of its user.
C25_OwnershipIsolation ==
  /\ \A u \in User : \A type \in EntryTypes :
        /\ \A self \in Payloads(Cfg, type, 0) :
              \A c \in {ModelViewSet_create(Cfg, "w1", u, self)} : Isolated(u, c)
        /\ \A pk \in DOMAIN Table(Cfg, type) :
              /\ \A self \in Payloads(Cfg, type, pk) :
                    \A c \in {ModelViewSet_update(Cfg, "w1", u, self)} : Isolated(u, c)
              /\ \A c \in {ModelViewSet_destroy(Cfg, "w1", u, type, pk)} : Isolated(u, c)
  /\ \A u \in User :
        RoomForAccount =>
           /\ \A a \in DOMAIN accounts : \A amount \in ViewAmounts :
                 \A c \in {TransferViewSet_salary_alone(Cfg, "w1", u, a, amount)} : Isolated(u, c)
           /\ \A c \in {Run(Begin(Cfg, "w1", ExternalSelf(u)), "w1")} : Isolated(u, c)
  /\ \A type \in EntryTypes : \A k \in DOMAIN Table(Cfg, type) :
        \A a \in RowAccounts(type, Table(Cfg, type)[k]) :
           accounts[a].user = Table(Cfg, type)[k].user

\* Both users have entries on their accounts, and a request for an entry of
\* the other user has just been answered with 404.
C25_Witness ==
  /\ last.op \in {"update", "destroy"} /\ last.res = "notfound"
  /\ \A u \in User :
        \E type \in EntryTypes : \E k \in DOMAIN Table(Cfg, type) :
           Table(Cfg, type)[k].user = u
  /\ \E a \in DOMAIN accounts : accounts[a].user = 2 /\ balance[a] # 0

\* No account other than the system accounts is below zero.
NonSystemNonNegative ==
  \A a \in DOMAIN accounts : ~accounts[a].is_system => balance[a] >= 0

\* C24: from a state in which no non-system account is below zero, a Transfer
\* create, update or delete leaves no non-system account below zero (so no
\* sequence of them does).
C24_TransfersKeepNonNegative ==
  [][(NonSystemNonNegative /\ last'.type = "tr") => NonSystemNonNegative']_vars

----------------------------------------------------------------------------
\* Claims about concurrent mutations (SpecConc).

\* C2: whenever no mutation is in flight, every account's balance equals the
\* signed sum of the persisted entries that reference it.
C2_ConcurrentBalanceInvariant == Quiescent => BalancesMatchLedger(Cfg)

\* The signed amount of an Expense or Income: what its create adds to the
\* balance of its account.
Signed(self) == IF self.type = "inc" THEN self.amount ELSE 0 - self.amount

RECURSIVE SumSigned(_)
\* The sum of the signed amounts of the entries in hand of the workers in S.
SumSigned(S) ==
  IF S = {} THEN 0
  ELSE LET w == CHOOSE x \in S : TRUE
       IN  Signed(tx[w].self) + SumSigned(S \ {w})

\* Every worker has created a new Expense or Income on account a and committed.
CreatedOn(a) ==
  \A w \in Workers :
     /\ Finished(w) /\ tx[w].res = "ok"
     /\ tx[w].self.type \in {"exp", "inc"}
     /\ tx[w].self.kind = "save" /\ tx[w].self.pk = 0
     /\ tx[w].self.account = a

\* C23: when concurrent creates of new Expenses and Incomes on one account
\* have all committed, in whatever interleaving, the account's balance is its
\* initial balance plus the incomes' amounts minus the expenses' amounts.
C23_NoLostDelta ==
  \A a \in DOMAIN accounts :
     CreatedOn(a) => balance[a] = SeedCfg.balance[a] + SumSigned(Workers)

\* An Expense and an Income of different amounts were created concurrently on
\* account 2, and both committed.
C23_Witness ==
  /\ CreatedOn(2)
  /\ tx["w1"].self.type = "exp" /\ tx["w2"].self.type = "inc"
  /\ tx["w1"].self.amount # tx["w2"].self.amount
  /\ Cardinality(DOMAIN expenses) = Cardinality(DOMAIN SeedCfg.expenses) + 1
  /\ Cardinality(DOMAIN incomes) = Cardinality(DOMAIN SeedCfg.incomes) + 1

\* The accounts a Transfer mutation affects: those of the request and those of
\* the stored row it updates or deletes.
AffectedAccounts(self) ==
  {self.from_account, self.to_account}
  \cup (IF self.pk \in DOMAIN SeedCfg.transfers
        THEN {SeedCfg.transfers[self.pk].from_account, SeedCfg.transfers[self.pk].to_account}
        ELSE {})

\* C4: two Transfer mutations on overlapping accounts, both completed (neither
\* aborted by the database), leave the balances and rows that running one and
\* then the other, in some order, leaves.
C4_TransfersSerializable ==
  \A w \in Workers : \A v \in Workers \ {w} :
     ( /\ Finished(w) /\ Finished(v)
       /\ tx[w].self.type = "tr" /\ tx[v].self.type = "tr"
       /\ tx[w].res # "deadlock" /\ tx[v].res # "deadlock"
       /\ AffectedAccounts(tx[w].self) \cap AffectedAccounts(tx[v].self) # {} )
     => \/ Data(Cfg) = Data(ExecAll(SeedCfg, "w1", <<tx[w].self, tx[v].self>>))
        \/ Data(Cfg) = Data(ExecAll(SeedCfg, "w1", <<tx[v].self, tx[w].self>>))

\* Two Transfer creates that debit the same non-system account, whose balance
\* covers each amount alone but not their sum.
RacingCreates(f) ==
  /\ \A w \in Workers :
        /\ tx[w].self.type = "tr" /\ tx[w].self.kind = "save" /\ tx[w].self.pk = 0
        /\ tx[w].self.from_account = f
        /\ tx[w].self.amount <= SeedCfg.balance[f]
  /\ ~accounts[f].is_system
  /\ tx["w1"].self.amount + tx["w2"].self.amount > SeedCfg.balance[f]

\* C5: of two such creates at most one commits, and the debited account's
\* balance never goes below zero.
C5_NoOverdraftRace ==
  \A f \in DOMAIN accounts :
     RacingCreates(f) =>
        /\ ~(tx["w1"].res = "ok" /\ tx["w2"].res = "ok")
        /\ balance[f] >= 0

\* Both creates are over: one committed, the other was rejected for
\* insufficient funds against the balance the first one left.
C5_Witness ==
  \E f \in DOMAIN accounts :
     /\ RacingCreates(f)
     /\ tx["w1"].res = "ok"
     /\ tx["w2"].res = "insufficient"
     /\ balance[f] = SeedCfg.balance[f] - tx["w1"].self.amount

\* The <<from, to>> pairs a Transfer mutation references.
RolePairs(self) ==
  {<<self.from_account, self.to_account>>}
  \cup (IF self.pk \in DOMAIN SeedCfg.transfers
        THEN {<<SeedCfg.transfers[self.pk].from_account, SeedCfg.transfers[self.pk].to_account>>}
        ELSE {})

SwappedRoles(s1, s2) ==
  \E p \in RolePairs(s1), q \in RolePairs(s2) : p[1] = q[2] /\ p[2] = q[1]

\* C6: two Transfer mutations that reference the same two accounts in swapped
\* roles never wait for each other's account row locks.
C6_NoDeadlock ==
  \A w \in Workers : \A v \in Workers \ {w} :
     ( /\ tx[w].self.type = "tr" /\ tx[v].self.type = "tr"
       /\ SwappedRoles(tx[w].self, tx[v].self) )
     => ~(WaitsFor(Cfg, w, v) /\ WaitsFor(Cfg, v, w))

\* C7: a Transfer mutation holds the exclusive lock of an account before it
\* modifies the account's balance or reads it for the funds check.
C7_LockHeldBeforeAccess ==
  [][\A w \in Workers :
        (tx[w].self.type = "tr" /\ Running(Cfg, w)) =>
           /\ \A a \in Accounts :
                 (tx'[w].pend[a] # tx[w].pend[a]) => lock[a] = w
           /\ (tx[w].pc = "get_from_acct" /\ tx'[w].pc # "get_from_acct")
                 => lock[tx[w].self.from_account] = w
    ]_vars

====
